---- MODULE Spec2Model ----
(***************************************************************************)
(* A model of OptoTransportAnalysis: the Data loader (data.py) and its     *)
(* subclasses' constructors, the methods of TransportData (Transport.py)   *)
(* and OpticsData (Optics.py), and create_metadata_from_dict (utils.py).   *)
(*                                                                         *)
(* The specifications share the variables:                                 *)
(*   SpecLoad      - files on disk, Data.__init__ called on them           *)
(*   SpecLoadDB    - a drawn database, Data.__init__ called on it          *)
(*   SpecTransport - a loaded transport record, TransportData's methods    *)
(*   SpecOptics    - a loaded optics record, add_average_signal            *)
(*   SpecSweep     - a record of a 2D sweep, get_2d_sweep_params           *)
(*   SpecSignal    - a loaded optics record, one of the filters            *)
(*   SpecProcess   - a loaded record, a sequence of its methods            *)
(*   SpecConstruct - TransportData and OpticsData constructed              *)
(*   SpecRoundTrip - create_metadata_from_dict, then Data.__init__         *)
(***************************************************************************)
EXTENDS Integers, Sequences, FiniteSets, TLC

VARIABLES
    fs,     \* the file system: path -> file
    rec,    \* the record the caller holds (NoRec before a constructor returned)
    pre,    \* the record as it was when the last call started (in SpecProcess: as
            \* it was loaded, before the first call)
    last    \* the last call: its operation, arguments, outcome and return value

vars == <<fs, rec, pre, last>>

(***************************************************************************)
(* Bounds of the model.                                                    *)
(***************************************************************************)
MaxRows == 3        \* rows of a drawn table
MaxVal == 2         \* cell values are drawn from 0..MaxVal
MaxFrames == 2      \* Intensity_1..Intensity_k columns of an optics table, k <= MaxFrames
MaxSpectrumRows == 1 \* rows of a drawn optics table
MaxRuns == 2        \* rows of a drawn runs table
MaxRawRows == 2     \* rows of a drawn raw result table
MaxSweeps == 2      \* outer sweep rows, and inner sweep rows, of a drawn experiments table
MaxSignalRows == 4  \* rows of the spectrum a filter is applied to
MaxProcessRows == 2 \* rows of the table a sequence of operations works on
MaxOps == 2         \* operations of a sequence

(***************************************************************************)
(* Numbers.  A float is modelled as an exact fraction <<n, d>> in lowest   *)
(* terms with d >= 0; d = 0 holds the IEEE specials: <<1,0>> is +inf,      *)
(* <<-1,0>> is -inf and <<0,0>> is NaN.  Rounding is not modelled.         *)
(***************************************************************************)
Abs(x) == IF x < 0 THEN -x ELSE x

Sgn(x) == IF x < 0 THEN -1 ELSE IF x > 0 THEN 1 ELSE 0

RECURSIVE Gcd(_, _)
Gcd(a, b) == IF b = 0 THEN a ELSE Gcd(b, a % b)

Norm(n, d) ==
    IF d = 0 THEN <<Sgn(n), 0>>
    ELSE LET g == Gcd(Abs(n), Abs(d))
         IN  <<(Sgn(d) * n) \div g, Abs(d) \div g>>

Num(n) == <<n, 1>>
NaN == <<0, 0>>
PosInf == <<1, 0>>
IsNaN(a) == a = NaN
IsFinite(a) == a[2] # 0

\* a + b
Add(a, b) ==
    IF IsNaN(a) \/ IsNaN(b) THEN NaN
    ELSE IF a[2] = 0 /\ b[2] = 0 THEN (IF a = b THEN a ELSE NaN)
    ELSE Norm(a[1] * b[2] + b[1] * a[2], a[2] * b[2])

Neg(a) == <<-a[1], a[2]>>

\* a - b
Sub(a, b) == Add(a, Neg(b))

\* a * b
Mul(a, b) == Norm(a[1] * b[1], a[2] * b[2])

\* 1 / b (numpy: 1/0 is inf, 1/inf is 0, 1/nan is nan)
Recip(b) == <<b[2] * (IF b[1] < 0 THEN -1 ELSE 1), Abs(b[1])>>

\* a / b, numpy's true division of float64
Div(a, b) == Mul(a, Recip(b))

\* a < b; every comparison with NaN is False
Lt(a, b) ==
    IF IsNaN(a) \/ IsNaN(b) THEN FALSE
    ELSE IF a[2] = 0 /\ b[2] = 0 THEN a[1] < b[1]
    ELSE a[1] * b[2] < b[1] * a[2]

\* a > b
Gt(a, b) == Lt(b, a)

(***************************************************************************)
(* Sequences.                                                              *)
(***************************************************************************)
Range(s) == {s[i] : i \in DOMAIN s}

Reverse(s) == [i \in 1..Len(s) |-> s[Len(s) + 1 - i]]

\* position of the first x in s, 0 when absent
IndexOf(s, x) ==
    IF x \in Range(s) THEN CHOOSE i \in DOMAIN s : s[i] = x /\ \A j \in 1..(i - 1) : s[j] # x
    ELSE 0

\* position of the last x in s, 0 when absent (str.rfind, 1-based)
RFind(s, x) ==
    IF x \in Range(s) THEN CHOOSE i \in DOMAIN s : s[i] = x /\ \A j \in (i + 1)..Len(s) : s[j] # x
    ELSE 0

RECURSIVE SumSeq(_)
SumSeq(s) == IF s = <<>> THEN Num(0) ELSE Add(SumSeq(SubSeq(s, 1, Len(s) - 1)), s[Len(s)])

SelectNotNaN(s) == SelectSeq(s, LAMBDA x : ~IsNaN(x))

Digits == <<"0", "1", "2", "3", "4", "5", "6", "7", "8", "9">>

\* str.find (1-based): position of the first occurrence of sub in s, 0 when absent
find(s, sub) ==
    LET hits == {i \in 1..(Len(s) - Len(sub) + 1) : SubSeq(s, i, i + Len(sub) - 1) = sub}
    IN  IF hits = {} THEN 0 ELSE CHOOSE i \in hits : \A j \in hits : i <= j

\* str.split(sep)
RECURSIVE split(_, _)
split(s, sep) ==
    LET i == find(s, sep)
    IN  IF i = 0 THEN <<s>>
        ELSE <<SubSeq(s, 1, i - 1)>> \o split(SubSeq(s, i + Len(sep), Len(s)), sep)

IsDigits(s) == \A i \in 1..Len(s) : SubSeq(s, i, i) \in Range(Digits)

RECURSIVE DigitsValue(_)
DigitsValue(s) ==
    IF Len(s) = 0 THEN 0
    ELSE 10 * DigitsValue(SubSeq(s, 1, Len(s) - 1))
            + (IndexOf(Digits, SubSeq(s, Len(s), Len(s))) - 1)

RECURSIVE Pow10(_)
Pow10(n) == IF n = 0 THEN 1 ELSE 10 * Pow10(n - 1)

\* float(s) for a decimal numeral [-]digits[.digits]: [ok, v]; ValueError otherwise
float(s) ==
    LET neg == Len(s) > 0 /\ SubSeq(s, 1, 1) = "-"
        body == IF neg THEN SubSeq(s, 2, Len(s)) ELSE s
        dot == find(body, ".")
        whole == IF dot = 0 THEN body ELSE SubSeq(body, 1, dot - 1)
        frac == IF dot = 0 THEN "" ELSE SubSeq(body, dot + 1, Len(body))
        v == Norm(DigitsValue(whole) * Pow10(Len(frac)) + DigitsValue(frac), Pow10(Len(frac)))
    IN  IF IsDigits(whole) /\ IsDigits(frac) /\ Len(whole) + Len(frac) > 0
        THEN [ok |-> TRUE, v |-> IF neg THEN Neg(v) ELSE v]
        ELSE [ok |-> FALSE, v |-> NaN]

\* the sequences over S of length lo..hi
SeqsOf(S, lo, hi) == UNION {[1..n -> S] : n \in lo..hi}

\* the elements of the set S of numbers, ascending
RECURSIVE SortNums(_)
SortNums(S) ==
    IF S = {} THEN <<>>
    ELSE LET m == CHOOSE x \in S : \A y \in S : ~Lt(y, x)
         IN  <<m>> \o SortNums(S \ {m})

(***************************************************************************)
(* Python values an argument or a metadata entry may hold.  t is the       *)
(* Python type, s the text of a str, v the number of a float or an int.    *)
(***************************************************************************)
PyNone == [t |-> "NoneType", s |-> "", v |-> NaN]
PyStr(s) == [t |-> "str", s |-> s, v |-> NaN]
PyFloat(v) == [t |-> "float", s |-> "", v |-> v]
PyInt(n) == [t |-> "int", s |-> "", v |-> Num(n)]
PyList(items) == [t |-> "list", s |-> "", v |-> NaN, items |-> items]
PyTuple(items) == [t |-> "tuple", s |-> "", v |-> NaN, items |-> items]

\* a path argument or attribute: None, or a str held as its characters
PNone == [t |-> "NoneType", p |-> <<>>]
PStr(p) == [t |-> "str", p |-> p]

\* a dict with str keys, as a function
EmptyDict == [k \in {} |-> PyNone]

(***************************************************************************)
(* pandas.  A DataFrame is its row labels (index), its column names in     *)
(* order (columns), its cells (col: name -> cells in row order) and, per   *)
(* column, whether the cells are numbers (dtype "float64") or Python       *)
(* objects such as str (dtype "object").  A Series is an index and its     *)
(* values.  Every index the loader builds has distinct labels: a           *)
(* RangeIndex (read_csv, read_sql) or the group keys of a groupby.         *)
(***************************************************************************)
RangeIndex(n) == [i \in 1..n |-> Num(i - 1)]

DataFrame(index, columns, col, dtype) ==
    [index |-> index, columns |-> columns, col |-> col, dtype |-> dtype]

Series(index, values) == [index |-> index, values |-> values]

NRows(df) == Len(df.index)

\* df[c]
GetCol(df, c) == Series(df.index, df.col[c])

\* the value of s at label l, NaN where s has no such label (reindexing)
AtLabel(s, l) ==
    LET i == IndexOf(s.index, l) IN IF i = 0 THEN NaN ELSE s.values[i]

\* s.reindex(index)
Reindex(s, index) == Series(index, [i \in DOMAIN index |-> AtLabel(s, index[i])])

\* df[c] = values, for an ndarray of len(df) values (set by position) 
SetColValues(df, c, values) ==
    [df EXCEPT !.columns = IF c \in Range(df.columns) THEN @ ELSE Append(@, c),
               !.col = [k \in (DOMAIN @) \cup {c} |-> IF k = c THEN values ELSE @[k]],
               !.dtype = [k \in (DOMAIN @) \cup {c} |-> IF k = c THEN "float64" ELSE @[k]]]

\* df[c] = s, for a Series s: pandas aligns s to the frame's index by label
SetCol(df, c, s) == SetColValues(df, c, Reindex(s, df.index).values)

\* s.iloc[::-1]: the rows in reverse order, each keeping its label
IlocReversed(s) == Series(Reverse(s.index), Reverse(s.values))

\* the index of a binary operation's result: the operands' own index when both
\* carry the same one, else the sorted union of their labels
AlignedIndex(a, b) ==
    IF a.index = b.index THEN a.index ELSE SortNums(Range(a.index) \cup Range(b.index))

\* a + b, a - b, a / b for two Series: aligned by label, not by position
SeriesAdd(a, b) ==
    LET ix == AlignedIndex(a, b)
    IN  Series(ix, [i \in DOMAIN ix |-> Add(AtLabel(a, ix[i]), AtLabel(b, ix[i]))])

SeriesSub(a, b) ==
    LET ix == AlignedIndex(a, b)
    IN  Series(ix, [i \in DOMAIN ix |-> Sub(AtLabel(a, ix[i]), AtLabel(b, ix[i]))])

SeriesDiv(a, b) ==
    LET ix == AlignedIndex(a, b)
    IN  Series(ix, [i \in DOMAIN ix |-> Div(AtLabel(a, ix[i]), AtLabel(b, ix[i]))])

\* s / x for a scalar x
SeriesDivScalar(s, x) == Series(s.index, [i \in DOMAIN s.values |-> Div(s.values[i], x)])

\* s[start:] on a float index: the rows whose label is >= start
SliceFrom(s, start) ==
    LET keep == {i \in DOMAIN s.index : ~Lt(s.index[i], start)}
        n == Cardinality(keep)
        pos(k) == CHOOSE i \in keep : Cardinality({j \in keep : j < i}) = k - 1
    IN  Series([k \in 1..n |-> s.index[pos(k)]], [k \in 1..n |-> s.values[pos(k)]])

\* the least of the non-NaN values of s[1..i], NaN when there is none
RunMin(v, i) ==
    LET S == {v[j] : j \in 1..i} \ {NaN}
    IN  IF S = {} THEN NaN ELSE CHOOSE x \in S : \A y \in S : ~Lt(y, x)

RunMax(v, i) ==
    LET S == {v[j] : j \in 1..i} \ {NaN}
    IN  IF S = {} THEN NaN ELSE CHOOSE x \in S : \A y \in S : ~Gt(y, x)

\* s.cummin(), s.cummax(): NaN cells stay NaN and are skipped
CumMin(s) ==
    Series(s.index, [i \in DOMAIN s.values |->
                        IF IsNaN(s.values[i]) THEN NaN ELSE RunMin(s.values, i)])

CumMax(s) ==
    Series(s.index, [i \in DOMAIN s.values |->
                        IF IsNaN(s.values[i]) THEN NaN ELSE RunMax(s.values, i)])

\* s.shift(): every value moves one row down, the first row becomes NaN
Shift(s) ==
    Series(s.index, [i \in DOMAIN s.values |-> IF i = 1 THEN NaN ELSE s.values[i - 1]])

\* a < b, a > b for two identically-labelled Series: a Series of bools
SeriesLt(a, b) == Series(a.index, [i \in DOMAIN a.values |-> Lt(a.values[i], b.values[i])])

SeriesGt(a, b) == Series(a.index, [i \in DOMAIN a.values |-> Gt(a.values[i], b.values[i])])

\* numpy.nanmean: the mean of the values that are not NaN (NaN when none is)
NanMean(s) ==
    LET t == SelectNotNaN(s)
    IN  IF t = <<>> THEN NaN ELSE Div(SumSeq(t), Num(Len(t)))

(***************************************************************************)
(* Paths and files.  A path is the sequence of its characters.  A file is  *)
(* its size in bytes being zero or not (empty), what it holds (kind) and   *)
(* its content (body): a database's tables by name, a csv's header and     *)
(* rows, a json document as the dict it encodes.                           *)
(***************************************************************************)
\* os.path.splitext (genericpath._splitext): <<root, ext>>; the extension starts at
\* the last dot of the last path component, leading dots of it not counted
splitext(p) ==
    LET sepIndex == RFind(p, "/")
        dotIndex == RFind(p, ".")
    IN  IF dotIndex > sepIndex /\ \E i \in (sepIndex + 1)..(dotIndex - 1) : p[i] # "."
        THEN <<SubSeq(p, 1, dotIndex - 1), SubSeq(p, dotIndex, Len(p))>>
        ELSE <<p, <<>> >>

ExtDb == <<".", "d", "b">>
ExtCsv == <<".", "c", "s", "v">>
ExtJson == <<".", "j", "s", "o", "n">>

File(kind, empty, body) == [kind |-> kind, empty |-> empty, body |-> body]

\* os.path.exists(p)
exists(fsys, p) == p \in DOMAIN fsys

\* os.path.getsize(p) > 0, for an existing p
nonempty(fsys, p) == ~fsys[p].empty

(***************************************************************************)
(* The record under construction: the attributes of self assigned so far   *)
(* (has) and their values.  data is a DataFrame (csv) or an OrderedDict of *)
(* DataFrames (db): keys in insertion order, tab the table of each key; a  *)
(* lone DataFrame is held under the key "".                                *)
(***************************************************************************)
NoData == [kind |-> "unset", keys |-> <<>>, tab |-> [k \in {} |-> 0]]

FrameData(df) == [kind |-> "DataFrame", keys |-> <<"">>, tab |-> [k \in {""} |-> df]]

TheFrame(data) == data.tab[""]

EmptyOrderedDict == [kind |-> "OrderedDict", keys |-> <<>>, tab |-> [k \in {} |-> 0]]

\* d[k] = table on an OrderedDict: a new key goes last, an old key keeps its place
DictSet(d, k, table) ==
    [d EXCEPT !.keys = IF k \in Range(d.keys) THEN @ ELSE Append(@, k),
              !.tab = [j \in (DOMAIN @) \cup {k} |-> IF j = k THEN table ELSE @[j]]]

NoSelf ==
    [has |-> {}, filename |-> PNone, filename_md |-> PNone,
     data |-> NoData, metadata |-> EmptyDict]

\* the caller's variable before any constructor returned
NoRec == [live |-> FALSE, self |-> NoSelf]

AnObject(self) == [live |-> TRUE, self |-> self]

(***************************************************************************)
(* Data.__initDataFromDB and what it calls.                                *)
(***************************************************************************)
\* str.split(sep) of a text given as its tokens (names and separators)
RECURSIVE Split(_, _)
Split(text, sep) ==
    LET i == IndexOf(text, sep)
    IN  IF i = 0 THEN <<text>>
        ELSE <<SubSeq(text, 1, i - 1)>> \o Split(SubSeq(text, i + 1, Len(text)), sep)

\* the str a token sequence spells: a single token is a name; anything else
\* (no token, several tokens) is the name of no column
Spelled(tokens) == IF Len(tokens) = 1 THEN tokens[1] ELSE ""

\* pandas.read_sql(name, con): the table as stored, rows numbered from 0
read_sql(db, name) ==
    IF name \in DOMAIN db THEN [status |-> "ok", df |-> db[name]]
    ELSE [status |-> "ValueError: Table not found", df |-> db]

\* the cells of column c in the rows whose `key` cell is k
GroupCells(df, key, k, c) ==
    LET rows == {i \in DOMAIN df.index : df.col[key][i] = k}
        n == Cardinality(rows)
        pos(j) == CHOOSE i \in rows : Cardinality({h \in rows : h < i}) = j - 1
    IN  [j \in 1..n |-> df.col[c][pos(j)]]

\* df.groupby(key).agg(numpy.nanmean): one row per distinct non-NaN key, in
\* ascending key order, labelled by the key; every other column holds the mean of
\* the group's non-NaN cells.  A column of objects cannot be averaged: pandas 1.x
\* drops it from the result, pandas 2.x raises (drops_nuisance tells which).
groupby_agg_nanmean(df, key, drops_nuisance) ==
    IF key \notin Range(df.columns) THEN [status |-> "KeyError", df |-> df]
    ELSE LET others == SelectSeq(df.columns, LAMBDA c : c # key)
             objs == {c \in Range(others) : df.dtype[c] = "object"}
             kept == SelectSeq(others, LAMBDA c : c \notin objs)
             keys == SortNums(Range(df.col[key]) \ {NaN})
         IN  IF objs # {} /\ ~drops_nuisance THEN [status |-> "TypeError", df |-> df]
             ELSE [status |-> "ok",
                   df |-> DataFrame(keys, kept,
                              [c \in Range(kept) |->
                                  [g \in DOMAIN keys |-> NanMean(GroupCells(df, key, keys[g], c))]],
                              [c \in Range(kept) |-> "float64"])]

\* the loop of __initDataFromDB over the first n rows of runs: <<status, data>>
RECURSIVE RunsLoop(_, _, _, _, _)
RunsLoop(db, runs, data, n, drops_nuisance) ==
    IF n = 0 THEN [status |-> "ok", data |-> data]
    ELSE LET sofar == RunsLoop(db, runs, data, n - 1, drops_nuisance)
             run_params == Split(runs.col["parameters"][n], ",")
             name == runs.col["result_table_name"][n]
             raw == read_sql(db, name)
             grouped == groupby_agg_nanmean(raw.df, Spelled(run_params[1]), drops_nuisance)
         IN  IF sofar.status # "ok" THEN sofar
             ELSE IF raw.status # "ok" THEN [status |-> raw.status, data |-> sofar.data]
             ELSE IF grouped.status # "ok" THEN [status |-> grouped.status, data |-> sofar.data]
             ELSE [status |-> "ok", data |-> DictSet(sofar.data, name, grouped.df)]

\* a slip: the loop stops one row of runs short
initDataFromDB_SkipLastRun(fsys, filename, drops_nuisance) ==
    LET db == fsys[filename].body
        d2 == DictSet(DictSet(EmptyOrderedDict, "experiments", db["experiments"]),
                      "runs", db["runs"])
    IN  RunsLoop(db, db["runs"], d2,
                 IF NRows(db["runs"]) = 0 THEN 0 ELSE NRows(db["runs"]) - 1, drops_nuisance)

\* Data.__initDataFromDB: <<status, data>>
initDataFromDB(fsys, filename, drops_nuisance) ==
    IF ~exists(fsys, filename) \/ fsys[filename].kind # "db"
    THEN [status |-> "DatabaseError", data |-> EmptyOrderedDict]
    ELSE LET db == fsys[filename].body
             experiments == read_sql(db, "experiments")
             runs == read_sql(db, "runs")
             d1 == DictSet(EmptyOrderedDict, "experiments", experiments.df)
             d2 == DictSet(d1, "runs", runs.df)
         IN  IF experiments.status # "ok"
             THEN [status |-> experiments.status, data |-> EmptyOrderedDict]
             ELSE IF runs.status # "ok" THEN [status |-> runs.status, data |-> d1]
             ELSE RunsLoop(db, runs.df, d2, NRows(runs.df), drops_nuisance)

\* pandas.read_csv: the header names the columns, the rows are numbered from 0
read_csv(body) ==
    DataFrame(RangeIndex(Len(body.rows)), body.header,
              [c \in Range(body.header) |->
                  [i \in DOMAIN body.rows |-> body.rows[i][IndexOf(body.header, c)]]],
              [c \in Range(body.header) |-> "float64"])

\* Data.__initDataFromCSV: <<status, data>>
initDataFromCSV(fsys, filename) ==
    IF ~exists(fsys, filename) THEN [status |-> "FileNotFoundError", data |-> NoData]
    ELSE IF fsys[filename].empty \/ fsys[filename].kind # "csv"
    THEN [status |-> "ParserError", data |-> NoData]
    ELSE [status |-> "ok", data |-> FrameData(read_csv(fsys[filename].body))]

\* Data.__initMetadataFromJSON: <<status, metadata>>
initMetadataFromJSON(fsys, filename_md) ==
    IF ~exists(fsys, filename_md) THEN [status |-> "FileNotFoundError", metadata |-> EmptyDict]
    ELSE IF fsys[filename_md].empty \/ fsys[filename_md].kind # "json"
    THEN [status |-> "JSONDecodeError", metadata |-> EmptyDict]
    ELSE [status |-> "ok", metadata |-> fsys[filename_md].body]

(***************************************************************************)
(* Data.__init__ and the dispatchers it calls.  Each returns the outcome   *)
(* (status: "ok" or the exception raised), the attributes of self assigned *)
(* when it ended, the private initializers it entered (calls), the         *)
(* warnings it emitted and the titles of the prompts it showed.            *)
(***************************************************************************)
\* a slip: a file without extension passes the assertion
supported_file_types_NoExt == {ExtDb, ExtCsv, <<>>}

supported_file_types == {ExtDb, ExtCsv}

supported_file_types_md == {ExtJson}

\* Data.__initData: <<status, data, calls, warnings>>
initData(fsys, filename, drops_nuisance) ==
    LET file_ext == splitext(filename)[2]
        db == initDataFromDB(fsys, filename, drops_nuisance)
        csv == initDataFromCSV(fsys, filename)
    IN  IF file_ext \notin supported_file_types
        THEN [status |-> "AssertionError: Data file type not supported", data |-> NoData,
              calls |-> <<"__initData">>, warnings |-> <<>>]
        ELSE IF file_ext = ExtDb
        THEN [status |-> db.status, data |-> db.data,
              calls |-> <<"__initData", "__initDataFromDB">>, warnings |-> <<>>]
        ELSE IF file_ext = ExtCsv
        THEN [status |-> csv.status, data |-> csv.data,
              calls |-> <<"__initData", "__initDataFromCSV">>, warnings |-> <<>>]
        ELSE [status |-> "ok", data |-> NoData,
              calls |-> <<"__initData">>, warnings |-> <<"Unexpected potential error">>]

\* Data.__initMetadata: <<status, metadata, calls, warnings>>
initMetadata(fsys, filename_md) ==
    LET file_ext_md == splitext(filename_md)[2]
        js == initMetadataFromJSON(fsys, filename_md)
    IN  IF file_ext_md \notin supported_file_types_md
        THEN [status |-> "AssertionError: Metadata file type not supported",
              metadata |-> EmptyDict, calls |-> <<"__initMetadata">>, warnings |-> <<>>]
        ELSE IF file_ext_md = ExtJson
        THEN [status |-> js.status, metadata |-> js.metadata,
              calls |-> <<"__initMetadata", "__initMetadataFromJSON">>, warnings |-> <<>>]
        ELSE [status |-> "ok", metadata |-> EmptyDict,
              calls |-> <<"__initMetadata">>, warnings |-> <<"Unexpected potential error">>]

\* tkinter.filedialog.askopenfilename: the path picked, or '' when the dialog is
\* cancelled; `answer` is what the user did
askopenfilename(answer) == PStr(answer)

\* Data.__init__(filename, filename_md): answer_data and answer_md are the user's
\* answers to the data-file and the metadata-file prompt, should they be shown
Data_init(fsys, filename, filename_md, answer_data, answer_md, drops_nuisance) ==
    LET self_filename == IF filename # PNone THEN filename ELSE askopenfilename(answer_data)
        prompts1 == IF filename # PNone THEN <<>> ELSE <<"Please select data file: ">>
        split_filename == splitext(self_filename.p)
        sidecar == split_filename[1] \o ExtJson
        has_sidecar == exists(fsys, sidecar) /\ nonempty(fsys, sidecar)
        self_filename_md ==
            IF filename_md # PNone THEN filename_md
            ELSE IF has_sidecar THEN PStr(sidecar)
            ELSE askopenfilename(answer_md)
        prompts2 ==
            IF filename_md # PNone \/ has_sidecar THEN prompts1
            ELSE Append(prompts1, "Please select metadata file: ")
        self0 == [NoSelf EXCEPT !.has = {"filename"}, !.filename = self_filename]
        self1 == [self0 EXCEPT !.has = @ \cup {"filename_md"}, !.filename_md = self_filename_md]
        d == initData(fsys, self_filename.p, drops_nuisance)
        self2 == IF d.data = NoData THEN self1
                 ELSE [self1 EXCEPT !.has = @ \cup {"data"}, !.data = d.data]
        m == initMetadata(fsys, self_filename_md.p)
        self3 == [self2 EXCEPT !.has = @ \cup {"metadata"},
                               !.metadata = IF self_filename_md = PNone THEN EmptyDict
                                            ELSE m.metadata]
    IN  IF self_filename = PNone
        THEN [status |-> "AssertionError: File not selected", self |-> self0,
              calls |-> <<>>, warnings |-> <<>>, prompts |-> prompts1]
        ELSE IF d.status # "ok"
        THEN [status |-> d.status, self |-> self2,
              calls |-> d.calls, warnings |-> d.warnings, prompts |-> prompts2]
        ELSE IF self_filename_md = PNone
        THEN [status |-> "ok", self |-> self3, calls |-> d.calls,
              warnings |-> d.warnings \o <<"No metadata file selected">>, prompts |-> prompts2]
        ELSE IF m.status # "ok"
        THEN [status |-> m.status, self |-> self2, calls |-> d.calls \o m.calls,
              warnings |-> d.warnings \o m.warnings, prompts |-> prompts2]
        ELSE [status |-> "ok", self |-> self3, calls |-> d.calls \o m.calls,
              warnings |-> d.warnings \o m.warnings, prompts |-> prompts2]

\* an argument the caller leaves out, for which the constructor's default stands
Omitted == [t |-> "omitted", p |-> <<>>]

Default(arg, default) == IF arg = Omitted THEN default ELSE arg

\* TransportData.__init__(fn="", fn_md="") of transportData.py
TransportData_init(fsys, fn, fn_md, answer_data, answer_md, drops_nuisance) ==
    Data_init(fsys, Default(fn, PStr(<<>>)), Default(fn_md, PStr(<<>>)),
              answer_data, answer_md, drops_nuisance)

\* OpticsData.__init__(fn=None, fn_md=None, in_dir="") of Optics.py; in_dir is the
\* directory the dialogs open in
OpticsData_init(fsys, fn, fn_md, answer_data, answer_md, drops_nuisance) ==
    Data_init(fsys, Default(fn, PNone), Default(fn_md, PNone),
              answer_data, answer_md, drops_nuisance)

(***************************************************************************)
(* TransportData's methods.  Each returns the outcome (status: "ok" or the *)
(* exception raised), self as the call left it, and the value returned.    *)
(* A column argument is a Python value: only a str can name a column.      *)
(***************************************************************************)
TemperatureColumn == "lakeshore_372_ch09_temperature"

\* key in d, for the OrderedDict self.data
HasTable(self, exp_name) ==
    self.data.kind = "OrderedDict" /\ exp_name \in Range(self.data.keys)

\* key in df.columns, for a Python value key
HasColumn(df, key) == key.t = "str" /\ key.s \in Range(df.columns)

\* key in self.metadata: the keys of a parsed json document are strs
HasMetadata(self, key) == key.t = "str" /\ key.s \in DOMAIN self.metadata

IsNumber(x) == x.t \in {"float", "int"}

NoReturn == <<>>

Raised(status, self) == [status |-> status, self |-> self, ret |-> NoReturn]

Returned(self, ret) == [status |-> "ok", self |-> self, ret |-> ret]

\* self.data[exp_name][c] = s
WithColumn(self, exp_name, c, s) ==
    [self EXCEPT !.data.tab[exp_name] = SetCol(@, c, s)]

\* TransportData.get_RTcond_DilFridge(exp_name, start_time, warm)
get_RTcond_DilFridge(self, exp_name, start_time, warm) ==
    IF ~HasTable(self, exp_name) THEN Raised("KeyError", self)
    ELSE IF TemperatureColumn \notin Range(self.data.tab[exp_name].columns)
    THEN Raised("KeyError", self)
    ELSE LET T == SliceFrom(GetCol(self.data.tab[exp_name], TemperatureColumn), start_time)
             greater_than_all_prev == SeriesGt(T, Shift(CumMax(T)))
             less_than_all_prev == SeriesLt(T, Shift(CumMin(T)))
         IN  IF warm THEN Returned(self, greater_than_all_prev)
             ELSE Returned(self, less_than_all_prev)

\* TransportData.append_resistance_signal(exp_name, R_name, V_sig_name, I_sig_name,
\*                                        gain, sensitivity)
append_resistance_signal(self, exp_name, R_name, V_sig_name, I_sig_name, gain, sensitivity) ==
    IF ~HasTable(self, exp_name) THEN Raised("KeyError", self)
    ELSE LET df == self.data.tab[exp_name]
             R0 == SeriesDiv(GetCol(df, V_sig_name.s), GetCol(df, I_sig_name.s))
             R1 == IF gain # PyNone THEN SeriesDivScalar(R0, self.metadata[gain.s].v) ELSE R0
             R2 == IF sensitivity # PyNone
                   THEN SeriesDivScalar(R1, self.metadata[sensitivity.s].v) ELSE R1
         IN  IF ~HasColumn(df, V_sig_name) \/ ~HasColumn(df, I_sig_name)
             THEN Raised("KeyError", self)
             ELSE IF gain # PyNone /\ ~HasMetadata(self, gain) THEN Raised("KeyError", self)
             ELSE IF gain # PyNone /\ ~IsNumber(self.metadata[gain.s])
             THEN Raised("TypeError", self)
             ELSE IF sensitivity # PyNone /\ ~HasMetadata(self, sensitivity)
             THEN Raised("KeyError", self)
             ELSE IF sensitivity # PyNone /\ ~IsNumber(self.metadata[sensitivity.s])
             THEN Raised("TypeError", self)
             ELSE Returned(WithColumn(self, exp_name, R_name, R2), NoReturn)

\* TransportData.append_MCA_coefficient(exp_name, MCA_name, R_2f_sig, R_f_sig, B_sig,
\*                                      I_sig, gain, sensitivity)
append_MCA_coefficient(self, exp_name, MCA_name, R_2f_sig, R_f_sig, B_sig, I_sig, gain, sensitivity) ==
    IF ~HasTable(self, exp_name) THEN Raised("KeyError", self)
    ELSE LET df == self.data.tab[exp_name]
             M0 == SeriesDiv(SeriesDiv(GetCol(df, R_2f_sig.s), GetCol(df, R_f_sig.s)),
                             GetCol(df, I_sig.s))
             M1 == IF B_sig.t = "float" THEN SeriesDivScalar(M0, B_sig.v)
                   ELSE SeriesDiv(M0, GetCol(df, B_sig.s))
             M2 == IF gain # PyNone THEN SeriesDivScalar(M1, gain.v) ELSE M1
             M3 == IF sensitivity # PyNone THEN SeriesDivScalar(M2, sensitivity.v) ELSE M2
         IN  IF ~HasColumn(df, R_2f_sig) \/ ~HasColumn(df, R_f_sig) \/ ~HasColumn(df, I_sig)
             THEN Raised("KeyError", self)
             ELSE IF B_sig.t # "float" /\ ~HasColumn(df, B_sig) THEN Raised("KeyError", self)
             ELSE IF gain # PyNone /\ ~IsNumber(gain) THEN Raised("TypeError", self)
             ELSE IF sensitivity # PyNone /\ ~IsNumber(sensitivity)
             THEN Raised("TypeError", self)
             ELSE Returned(WithColumn(self, exp_name, MCA_name, M3), NoReturn)

\* append_symm_antisymm_rho without the division by 2
append_symm_antisymm_rho_NoHalf(self, exp_name, R_sig) ==
    IF ~HasTable(self, exp_name) THEN Raised("KeyError", self)
    ELSE IF ~HasColumn(self.data.tab[exp_name], R_sig) THEN Raised("KeyError", self)
    ELSE LET R == GetCol(self.data.tab[exp_name], R_sig.s)
             symm == SeriesAdd(R, IlocReversed(R))
             self1 == WithColumn(self, exp_name, R_sig.s \o "_symm", symm)
             R1 == GetCol(self1.data.tab[exp_name], R_sig.s)
             antisymm == SeriesSub(R1, IlocReversed(R1))
         IN  Returned(WithColumn(self1, exp_name, R_sig.s \o "_antisymm", antisymm), NoReturn)

\* TransportData.append_symm_antisymm_rho(exp_name, R_sig)
append_symm_antisymm_rho(self, exp_name, R_sig) ==
    IF ~HasTable(self, exp_name) THEN Raised("KeyError", self)
    ELSE IF ~HasColumn(self.data.tab[exp_name], R_sig) THEN Raised("KeyError", self)
    ELSE LET R == GetCol(self.data.tab[exp_name], R_sig.s)
             symm == SeriesDivScalar(SeriesAdd(R, IlocReversed(R)), Num(2))
             self1 == WithColumn(self, exp_name, R_sig.s \o "_symm", symm)
             R1 == GetCol(self1.data.tab[exp_name], R_sig.s)
             antisymm == SeriesDivScalar(SeriesSub(R1, IlocReversed(R1)), Num(2))
         IN  Returned(WithColumn(self1, exp_name, R_sig.s \o "_antisymm", antisymm), NoReturn)

sweep_types ==
    <<"Keithley voltage", "PPMS DynaCool field", "PPMS DynaCool temp", "Keithley current",
      "AMI430 field">>

sweep_dirns == <<"", "up", "down">>

\* exp_name = exp_name + ' ' + dirn, unless dirn is ""
WithDirn(exp_name, dirn) == IF dirn # "" THEN exp_name \o " " \o dirn ELSE exp_name

\* the outer branch of get_2d_sweep_params: the names it binds (bound is FALSE when
\* no branch of the if/elif chain is taken, and the names stay unbound)
OuterNames(outer_sweep_instr, outer_sweep_type, outer_dirn) ==
    IF outer_sweep_type = "Keithley voltage"
    THEN [bound |-> TRUE, unit |-> "V",
          init_exp_name |-> "Keithley " \o outer_sweep_instr \o " voltage init",
          exp_name |-> WithDirn("Keithley " \o outer_sweep_instr \o " voltage sweep", outer_dirn)]
    ELSE IF outer_sweep_type = "PPMS DynaCool field"
    THEN [bound |-> TRUE, unit |-> "T",
          init_exp_name |-> "PPMS DynaCool " \o outer_sweep_instr \o " field init",
          exp_name |-> WithDirn("PPMS DynaCool " \o outer_sweep_instr \o " field sweep", outer_dirn)]
    ELSE IF outer_sweep_type = "PPMS DynaCool temp"
    THEN [bound |-> TRUE, unit |-> "K",
          init_exp_name |-> "PPMS DynaCool " \o outer_sweep_instr \o " temp init",
          exp_name |-> WithDirn("PPMS DynaCool " \o outer_sweep_instr \o " temp sweep", outer_dirn)]
    ELSE IF outer_sweep_type = "AMI430 field"
    THEN [bound |-> TRUE, unit |-> "T",
          init_exp_name |-> "AMI430 " \o outer_sweep_instr \o " field init",
          exp_name |-> WithDirn("AMI430 " \o outer_sweep_instr \o " field sweep", outer_dirn)]
    ELSE [bound |-> FALSE, unit |-> "", init_exp_name |-> "", exp_name |-> ""]

\* the inner branch: exp_name is rebound by three of the types and otherwise keeps
\* the value the outer branch gave it
InnerName(inner_sweep_instr, inner_sweep_type, inner_dirn, exp_name) ==
    IF inner_sweep_type = "Keithley voltage"
    THEN WithDirn("Keithley " \o inner_sweep_instr \o " voltage sweep", inner_dirn)
    ELSE IF inner_sweep_type = "PPMS DynaCool field"
    THEN WithDirn("PPMS DynaCool " \o inner_sweep_instr \o " field sweep", inner_dirn)
    ELSE IF inner_sweep_type = "Keithley current"
    THEN WithDirn("Keithley " \o inner_sweep_instr \o " current sweep", inner_dirn)
    ELSE exp_name

\* experiments[column].where(experiments['name'] == exp_name).dropna(), as a list
\* (the cells of an object column are all present)
WhereName(experiments, column, exp_name) ==
    LET hit(i) == /\ experiments.col["name"][i] = exp_name
                  /\ experiments.dtype[column] = "float64" => experiments.col[column][i] # NaN
        rows == SelectSeq([i \in DOMAIN experiments.index |-> i], hit)
    IN  [k \in DOMAIN rows |-> experiments.col[column][rows[k]]]

\* float(param.split(unit)[-2].split('to ')[1]): [status, v]
param_value(param, unit) ==
    LET a == split(param, unit)
        b == split(a[Len(a) - 1], "to ")
    IN  IF Len(a) < 2 THEN [status |-> "IndexError", v |-> NaN]
        ELSE IF Len(b) < 2 THEN [status |-> "IndexError", v |-> NaN]
        ELSE IF ~float(b[2]).ok THEN [status |-> "ValueError", v |-> NaN]
        ELSE [status |-> "ok", v |-> float(b[2]).v]

\* str(id) of a whole number below 10 inside f'results-{id}-1'
ResultTableName(id) == "results-" \o Digits[id[1] + 1] \o "-1"

\* TransportData.get_2d_sweep_params(outer_sweep_instr, outer_sweep_type,
\*     inner_sweep_instr, inner_sweep_type, outer_dirn, inner_dirn)
get_2d_sweep_params(self, outer_sweep_instr, outer_sweep_type, inner_sweep_instr, inner_sweep_type, outer_dirn, inner_dirn) ==
    LET experiments == self.data.tab["experiments"]
        outer == OuterNames(outer_sweep_instr, outer_sweep_type, outer_dirn)
        init_rows == WhereName(experiments, "sample_name", outer.init_exp_name)
        init_val == param_value(init_rows[1], outer.unit)
        params == WhereName(experiments, "sample_name", outer.exp_name)
        values == [k \in DOMAIN params |-> param_value(params[k], outer.unit)]
        bad == {k \in DOMAIN values : values[k].status # "ok"}
        outer_param == <<init_val.v>> \o [k \in DOMAIN values |-> values[k].v]
        exp_name == InnerName(inner_sweep_instr, inner_sweep_type, inner_dirn, outer.exp_name)
        sweep_ids == WhereName(experiments, "exp_id", exp_name)
    IN  IF outer_sweep_type \notin Range(sweep_types) \/ inner_sweep_type \notin Range(sweep_types)
        THEN Raised("AssertionError: Invalid sweep type(s)", self)
        ELSE IF outer_dirn \notin Range(sweep_dirns) \/ inner_dirn \notin Range(sweep_dirns)
        THEN Raised("AssertionError: Invalid sweep direction(s)", self)
        ELSE IF ~outer.bound THEN Raised("UnboundLocalError", self)
        ELSE IF init_rows = <<>> THEN Raised("IndexError", self)
        ELSE IF init_val.status # "ok" THEN Raised(init_val.status, self)
        ELSE IF bad # {}
        THEN Raised(values[CHOOSE k \in bad : \A j \in bad : k <= j].status, self)
        ELSE IF sweep_ids = <<>> THEN Raised("IndexError", self)
        ELSE IF ~HasTable(self, ResultTableName(sweep_ids[1])) THEN Raised("KeyError", self)
        ELSE Returned(self, [inner_param |-> self.data.tab[ResultTableName(sweep_ids[1])].index,
                             outer_param |-> outer_param,
                             sweep_ids |-> sweep_ids])

(***************************************************************************)
(* OpticsData's methods (Optics.py).  The record's data is the one         *)
(* DataFrame read from a csv file.                                         *)
(***************************************************************************)
\* str.startswith
startswith(s, prefix) == Len(s) >= Len(prefix) /\ SubSeq(s, 1, Len(prefix)) = prefix

\* df[names].sum(axis=1): the row-wise sum of the named columns, a missing cell
\* (NaN) skipped; the sum of no cell is 0
SumAxis1(df, names) ==
    Series(df.index,
           [i \in DOMAIN df.index |->
               SumSeq(SelectNotNaN([j \in DOMAIN names |-> df.col[names[j]][i]]))])

\* add_average_signal with the intensity columns taken by position (every column
\* but the first) instead of by name
add_average_signal_ByPosition(self, num_frames) ==
    IF self.data.kind # "DataFrame" THEN Raised("AttributeError", self)
    ELSE LET df == TheFrame(self.data)
             int_col_names == Tail(df.columns)
             num_frames_ == Len(int_col_names)
             average == SeriesDivScalar(SumAxis1(df, int_col_names), Num(num_frames_))
         IN  Returned([self EXCEPT !.data =
                          FrameData(SetColValues(df, "Average Intensity", average.values))],
                      NoReturn)

\* OpticsData.add_average_signal(num_frames=None)
add_average_signal(self, num_frames) ==
    IF self.data.kind # "DataFrame" THEN Raised("AttributeError", self)
    ELSE LET df == TheFrame(self.data)
             int_col_names == SelectSeq(df.columns,
                                        LAMBDA names : startswith(names, "Intensity"))
             \* num_frames = len(int_col_names): the argument is overwritten
             num_frames_ == Len(int_col_names)
             average == SeriesDivScalar(SumAxis1(df, int_col_names), Num(num_frames_))
         IN  Returned([self EXCEPT !.data =
                          FrameData(SetColValues(df, "Average Intensity", average.values))],
                      NoReturn)

\* Complex numbers <<re, im>> and the twiddle factor exp(-2 pi i e / n).  It is
\* exact when the angle is a multiple of pi/2, which covers every transform of
\* 1, 2 or 4 points; any other twiddle factor is irrational and is held as NaN.
Complex(re, im) == <<re, im>>

CAdd(a, b) == Complex(Add(a[1], b[1]), Add(a[2], b[2]))

CMul(a, b) ==
    Complex(Sub(Mul(a[1], b[1]), Mul(a[2], b[2])), Add(Mul(a[1], b[2]), Mul(a[2], b[1])))

RECURSIVE CSum(_)
CSum(s) == IF s = <<>> THEN Complex(Num(0), Num(0))
           ELSE CAdd(CSum(SubSeq(s, 1, Len(s) - 1)), s[Len(s)])

Twiddle(n, e) ==
    IF (4 * e) % n # 0 THEN Complex(NaN, NaN)
    ELSE LET quarter == ((4 * e) \div n) % 4
         IN  IF quarter = 0 THEN Complex(Num(1), Num(0))
             ELSE IF quarter = 1 THEN Complex(Num(0), Num(-1))
             ELSE IF quarter = 2 THEN Complex(Num(-1), Num(0))
             ELSE Complex(Num(0), Num(1))

\* scipy.fft.rfft of n real values: the bins 0..n//2 (ValueError for no value)
rfft(x) ==
    LET n == Len(x)
    IN  [k \in 1..((n \div 2) + 1) |->
            CSum([j \in 1..n |-> CMul(Complex(x[j], Num(0)), Twiddle(n, (j - 1) * (k - 1)))])]

\* fft_vals[n_trunc:] = 0 (a negative n_trunc counts from the end)
ZeroFrom(fft_vals, n_trunc) ==
    LET m == Len(fft_vals)
        start == IF n_trunc >= 0 THEN n_trunc ELSE IF m + n_trunc < 0 THEN 0 ELSE m + n_trunc
    IN  [k \in 1..m |-> IF k - 1 >= start THEN Complex(Num(0), Num(0)) ELSE fft_vals[k]]

\* scipy.fft.irfft of m bins with the default length: 2*(m - 1) real values, the
\* first and the last bin taken as real
irfft(fft_vals) ==
    LET m == Len(fft_vals)
        n == 2 * (m - 1)
        term(j, k) ==
            IF k = 1 THEN fft_vals[1][1]
            ELSE IF k = m THEN (IF (j - 1) % 2 = 0 THEN fft_vals[m][1] ELSE Neg(fft_vals[m][1]))
            ELSE Mul(Num(2),
                     CMul(fft_vals[k], Twiddle(n, (n - (((j - 1) * (k - 1)) % n)) % n))[1])
    IN  [j \in 1..n |-> Div(SumSeq([k \in 1..m |-> term(j, k)]), Num(n))]

\* OpticsData.apply_lpf(key_name, n_trunc)
apply_lpf(self, key_name, n_trunc) ==
    IF self.data.kind # "DataFrame" THEN Raised("KeyError", self)
    ELSE LET df == TheFrame(self.data)
             fft_vals == ZeroFrom(rfft(df.col[key_name]), n_trunc)
             smoothed == irfft(fft_vals)
         IN  IF key_name \notin Range(df.columns) THEN Raised("KeyError", self)
             ELSE IF NRows(df) = 0 THEN Raised("ValueError", self)
             ELSE IF Len(fft_vals) < 2 THEN Raised("ValueError", self)
             ELSE IF Len(smoothed) # NRows(df)
             THEN Raised("ValueError: Length of values does not match length of index", self)
             ELSE Returned([self EXCEPT !.data =
                              FrameData(SetColValues(df, key_name \o " (FFT Smoothed)",
                                                     smoothed))],
                           NoReturn)

\* OpticsData.apply_lpf_avg(n_trunc): the assertion tests
\* 'Average Intensity' in self.data.keys, whose right operand is the bound method
\* keys and not its result; the membership test on a method raises TypeError
\* before the assertion is decided and before self.fft_smooth is looked up
apply_lpf_avg(self, n_trunc) == Raised("TypeError", self)

\* the coefficients [alpha0, ..., alpha4] of the pre-defined windows
defined_sum_cosine_windows ==
    [w \in {"Hann", "Hamming", "Blackman", "Blackman (exact)", "Nuttall", "Blackman-Nuttall",
            "Blackman-Harris", "Flat top", "Custom"} |->
        IF w = "Hann" THEN <<Norm(1, 2), Norm(1, 2), Num(0), Num(0), Num(0)>>
        ELSE IF w = "Hamming" THEN <<Norm(25, 46), Norm(21, 46), Num(0), Num(0), Num(0)>>
        ELSE IF w = "Blackman" THEN <<Norm(42, 100), Norm(1, 2), Norm(8, 100), Num(0), Num(0)>>
        ELSE IF w = "Blackman (exact)"
        THEN <<Norm(7938, 18608), Norm(9240, 18608), Norm(1430, 18608), Num(0), Num(0)>>
        ELSE IF w = "Nuttall"
        THEN <<Norm(355768, 1000000), Norm(487396, 1000000), Norm(144232, 1000000),
               Norm(12604, 1000000), Num(0)>>
        ELSE IF w = "Blackman-Nuttall"
        THEN <<Norm(3635819, 10000000), Norm(4891775, 10000000), Norm(1365995, 10000000),
               Norm(106411, 10000000), Num(0)>>
        ELSE IF w = "Blackman-Harris"
        THEN <<Norm(35875, 100000), Norm(48829, 100000), Norm(14128, 100000),
               Norm(1168, 100000), Num(0)>>
        ELSE IF w = "Flat top"
        THEN <<Norm(21557895, 100000000), Norm(41663158, 100000000),
               Norm(277263158, 1000000000), Norm(83578947, 1000000000),
               Norm(6947368, 1000000000)>>
        ELSE <<>>]

\* cos(2 pi t / N): rational exactly when t/N is a multiple of 1/4 or of 1/6; any
\* other value is irrational and is held as NaN
CosTurn(t, N) ==
    LET r == (12 * (t % N))
    IN  IF r % N # 0 THEN NaN
        ELSE LET twelfth == r \div N
             IN  IF twelfth = 0 THEN Num(1)
                 ELSE IF twelfth \in {2, 10} THEN Norm(1, 2)
                 ELSE IF twelfth \in {3, 9} THEN Num(0)
                 ELSE IF twelfth \in {4, 8} THEN Norm(-1, 2)
                 ELSE IF twelfth = 6 THEN Num(-1)
                 ELSE NaN

\* alpha*cos(array(range(N))*h*2*pi/N) at position n (a zero coefficient gives 0)
Harmonic(alpha, h, n, N) == IF alpha = Num(0) THEN Num(0) ELSE Mul(alpha, CosTurn(h * n, N))

\* window = alpha0 - alpha1*cos(2 pi n/N) + alpha2*cos(4 pi n/N) - alpha3*cos(6 pi n/N)
\*          + alpha4*cos(8 pi n/N), n = 0..N-1
sum_cosine_window(alpha, N) ==
    [i \in 1..N |->
        Add(Sub(Add(Sub(alpha[1], Harmonic(alpha[2], 1, i - 1, N)),
                    Harmonic(alpha[3], 2, i - 1, N)),
                Harmonic(alpha[4], 3, i - 1, N)),
            Harmonic(alpha[5], 4, i - 1, N))]

\* scipy.signal.convolve(sig, window, mode='same'): the len(sig) values of the full
\* convolution centred on it
convolve_same(sig, window) ==
    LET n == Len(sig)
        N == Len(window)
        full(t) == SumSeq([j \in 1..n |->
                              IF t - j + 1 \in 1..N THEN Mul(sig[j], window[t - j + 1])
                              ELSE Num(0)])
    IN  [i \in 1..n |-> full(i + ((N - 1) \div 2))]

\* OpticsData.apply_sum_cosine_window(key_name, window_name, N, alpha0..alpha4),
\* alpha the list of the five coefficient arguments
apply_sum_cosine_window(self, key_name, window_name, N, alpha) ==
    IF window_name \notin DOMAIN defined_sum_cosine_windows
    THEN Raised("AssertionError: Selected window not a valid choice", self)
    ELSE IF self.data.kind # "DataFrame" THEN Raised("KeyError", self)
    ELSE LET df == TheFrame(self.data)
             coefficients == IF window_name # "Custom"
                             THEN defined_sum_cosine_windows[window_name] ELSE alpha
             sig == df.col[key_name]
             window == sum_cosine_window(coefficients, N)
             filtered == [i \in DOMAIN sig |->
                             Div(convolve_same(sig, window)[i], SumSeq(window))]
         IN  IF key_name \notin Range(df.columns) THEN Raised("KeyError", self)
             ELSE Returned([self EXCEPT !.data =
                              FrameData(SetColValues(df,
                                  key_name \o " (" \o window_name \o ")", filtered))],
                           NoReturn)

\* Planck*speed_of_light/electron_volt/1e-9: the photon energy in eV of the
\* wavelength 1 nm, to two decimals
eV_nm == Norm(123984, 100)

\* add_eV_from_wavelength writing the energies over the column Wavelength
add_eV_from_wavelength_InPlace(self) ==
    IF self.data.kind # "DataFrame" THEN Raised("KeyError", self)
    ELSE LET df == TheFrame(self.data)
         IN  IF "Wavelength" \notin Range(df.columns) THEN Raised("KeyError", self)
             ELSE Returned([self EXCEPT !.data =
                              FrameData(SetCol(df, "Wavelength",
                                  Series(df.index,
                                         [i \in DOMAIN df.index |->
                                             Mul(Recip(df.col["Wavelength"][i]), eV_nm)])))],
                           NoReturn)

\* OpticsData.add_eV_from_wavelength()
add_eV_from_wavelength(self) ==
    IF self.data.kind # "DataFrame" THEN Raised("KeyError", self)
    ELSE LET df == TheFrame(self.data)
         IN  IF "Wavelength" \notin Range(df.columns) THEN Raised("KeyError", self)
             ELSE Returned([self EXCEPT !.data =
                              FrameData(SetCol(df, "Energy",
                                  Series(df.index,
                                         [i \in DOMAIN df.index |->
                                             Mul(Recip(df.col["Wavelength"][i]), eV_nm)])))],
                           NoReturn)

\* numpy.gradient of n >= 2 values with unit spacing: central differences inside,
\* one-sided differences at the two ends
gradient(f) ==
    LET n == Len(f)
    IN  [i \in 1..n |->
            IF i = 1 THEN Sub(f[2], f[1])
            ELSE IF i = n THEN Sub(f[n], f[n - 1])
            ELSE Div(Sub(f[i + 1], f[i - 1]), Num(2))]

\* OpticsData.compute_gradient(key_name)
compute_gradient(self, key_name) ==
    IF self.data.kind # "DataFrame" \/ key_name \notin Range(TheFrame(self.data).columns)
    THEN Raised("AssertionError: Selected key not valid", self)
    ELSE LET df == TheFrame(self.data)
         IN  IF NRows(df) < 2 THEN Raised("ValueError", self)
             ELSE Returned([self EXCEPT !.data =
                              FrameData(SetColValues(df, "Grad " \o key_name,
                                                     gradient(df.col[key_name])))],
                           NoReturn)

\* OpticsData.compute_dR(key_name, background, subtract_mean)
compute_dR(self, key_name, background, subtract_mean) ==
    IF self.data.kind # "DataFrame" \/ background.data.kind # "DataFrame"
    THEN Raised("KeyError", self)
    ELSE LET df == TheFrame(self.data)
             bg == TheFrame(background.data)
             spec == SeriesDiv(GetCol(df, key_name),
                               SeriesAdd(GetCol(df, key_name), GetCol(bg, "Intensity")))
             centred == Series(spec.index,
                               [i \in DOMAIN spec.values |->
                                   Sub(spec.values[i], NanMean(spec.values))])
         IN  IF key_name \notin Range(df.columns) \/ "Intensity" \notin Range(bg.columns)
             THEN Raised("KeyError", self)
             ELSE Returned([self EXCEPT !.data =
                              FrameData(SetCol(df, "dR/R " \o key_name,
                                               IF subtract_mean THEN centred ELSE spec))],
                           NoReturn)

(***************************************************************************)
(* utils.create_metadata_from_dict and the json module.  A dict is a       *)
(* function from its keys, themselves Python values, to its values.  A     *)
(* JSON text is held as its value tree; a json file on disk is held as the *)
(* document json.load returns from it.                                     *)
(***************************************************************************)
\* str(n) of an int
RECURSIVE str_int(_)
str_int(n) ==
    IF n < 0 THEN "-" \o str_int(-n)
    ELSE IF n < 10 THEN Digits[n + 1]
    ELSE str_int(n \div 10) \o Digits[(n % 10) + 1]

\* the member name json.dump writes for a key: a str as it is, an int as its
\* digits, None as null
json_key(k) ==
    IF k.t = "str" THEN k.s ELSE IF k.t = "int" THEN str_int(k.v[1]) ELSE "null"

\* the JSON value json.dump writes for a Python value: a list and a tuple both
\* become an array
RECURSIVE json_encode(_)
json_encode(o) ==
    IF o.t = "str" THEN [j |-> "string", s |-> o.s]
    ELSE IF o.t = "int" THEN [j |-> "number", v |-> o.v, int |-> TRUE]
    ELSE IF o.t = "float" THEN [j |-> "number", v |-> o.v, int |-> FALSE]
    ELSE IF o.t = "NoneType" THEN [j |-> "null"]
    ELSE [j |-> "array", items |-> [i \in DOMAIN o.items |-> json_encode(o.items[i])]]

\* json.dump(dict_to_write, file): one member per key, under the name of the key
json_dump(dict_to_write) ==
    [j |-> "object",
     members |-> [name \in {json_key(k) : k \in DOMAIN dict_to_write} |->
                     json_encode(dict_to_write[CHOOSE k \in DOMAIN dict_to_write :
                                                   json_key(k) = name])]]

\* the Python value json.load builds from a JSON value: an array becomes a list
RECURSIVE json_decode(_)
json_decode(x) ==
    IF x.j = "string" THEN PyStr(x.s)
    ELSE IF x.j = "number" THEN (IF x.int THEN PyInt(x.v[1]) ELSE PyFloat(x.v))
    ELSE IF x.j = "null" THEN PyNone
    ELSE PyList([i \in DOMAIN x.items |-> json_decode(x.items[i])])

\* json.load(file) of an object: a dict with str keys
json_load(doc) == [name \in DOMAIN doc.members |-> json_decode(doc.members[name])]

\* create_metadata_from_dict with stem + '.json' replaced by filename + '.json'
create_metadata_from_dict_KeepExt(fsys, dict_to_write, answer) ==
    LET filename == askopenfilename(answer).p
        filename_json == filename \o ExtJson
    IN  [p \in (DOMAIN fsys) \cup {filename_json} |->
            IF p = filename_json THEN File("json", FALSE, json_load(json_dump(dict_to_write)))
            ELSE fsys[p]]

\* utils.create_metadata_from_dict(dict_to_write): the files after the call, answer
\* being what the dialog returns
create_metadata_from_dict(fsys, dict_to_write, answer) ==
    LET filename == askopenfilename(answer).p
        filename_json == splitext(filename)[1] \o ExtJson
    IN  [p \in (DOMAIN fsys) \cup {filename_json} |->
            IF p = filename_json THEN File("json", FALSE, json_load(json_dump(dict_to_write)))
            ELSE fsys[p]]

(***************************************************************************)
(* The files of SpecLoad.                                                  *)
(***************************************************************************)
P_a_db == <<"a", ".", "d", "b">>
P_a_json == <<"a", ".", "j", "s", "o", "n">>
P_s_csv == <<"s", ".", "c", "s", "v">>
P_s_json == <<"s", ".", "j", "s", "o", "n">>
P_m_json == <<"m", ".", "j", "s", "o", "n">>
P_m_txt == <<"m", ".", "t", "x", "t">>
P_n_txt == <<"n", ".", "t", "x", "t">>
P_noext == <<"d", "b">>
P_dotfile == <<".", "d", "b">>
P_dotdir == <<"x", ".", "d", "b", "/", "d">>
P_upper == <<"a", ".", "D", "B">>
P_z_json == <<"z", ".", "j", "s", "o", "n">>
P_q_csv == <<"q", ".", "c", "s", "v">>
P_empty == <<>>

\* the documents of the metadata files
DocM == [k \in {"gain", "sensitivity"} |-> IF k = "gain" THEN PyInt(2) ELSE PyFloat(Num(2))]
DocA == [k \in {"num_frames"} |-> PyInt(4)]

\* the rows a runs table is drawn from: the result table a run names, and the text
\* of its parameters column
RunRowKinds ==
    { [result_table_name |-> "results-1-1", parameters |-> <<"t", ",", "v">>],
      [result_table_name |-> "results-1-1", parameters |-> <<"v", ",", "t">>],
      [result_table_name |-> "results-2-1", parameters |-> <<"t", ",", "v">>],
      [result_table_name |-> "results-2-1", parameters |-> <<"x">>],
      [result_table_name |-> "results-9-9", parameters |-> <<"t">>],
      [result_table_name |-> "runs", parameters |-> <<"run_id">>] }

RunsTable(rows) ==
    DataFrame(RangeIndex(Len(rows)), <<"run_id", "result_table_name", "parameters">>,
              [c \in {"run_id", "result_table_name", "parameters"} |->
                  [i \in DOMAIN rows |->
                      IF c = "run_id" THEN Num(i)
                      ELSE IF c = "result_table_name" THEN rows[i].result_table_name
                      ELSE rows[i].parameters]],
              [c \in {"run_id", "result_table_name", "parameters"} |->
                  IF c = "run_id" THEN "float64" ELSE "object"])

\* the one row of the experiments table
ExperimentsTable ==
    DataFrame(RangeIndex(1), <<"exp_id", "name", "sample_name">>,
              [c \in {"exp_id", "name", "sample_name"} |->
                  IF c = "exp_id" THEN <<Num(1)>>
                  ELSE IF c = "name" THEN <<"Keithley gate voltage sweep">>
                  ELSE <<"sample">>],
              [c \in {"exp_id", "name", "sample_name"} |->
                  IF c = "exp_id" THEN "float64" ELSE "object"])

\* a raw result table with the columns t and v, from its rows <<t, v>>
RawTable(rows) ==
    DataFrame(RangeIndex(Len(rows)), <<"t", "v">>,
              [c \in {"t", "v"} |-> [i \in DOMAIN rows |-> rows[i][IF c = "t" THEN 1 ELSE 2]]],
              [c \in {"t", "v"} |-> "float64"])

\* the rows <<t, v>> a raw result table is drawn from: repeated and missing sweep
\* values, missing measurements
RawRowKinds ==
    { <<Num(0), Num(1)>>, <<Num(0), Num(2)>>, <<Num(1), Num(1)>>, <<NaN, Num(1)>> }

\* a database: its tables by name
Database(runRows, rawRows) ==
    [n \in {"experiments", "runs", "results-1-1", "results-2-1"} |->
        IF n = "experiments" THEN ExperimentsTable
        ELSE IF n = "runs" THEN RunsTable(runRows)
        ELSE IF n = "results-1-1" THEN RawTable(rawRows)
        ELSE RawTable(<< <<Num(0), Num(1)>>, <<Num(0), Num(2)>>, <<Num(1), NaN>> >>)]

CsvBody ==
    [header |-> <<"Wavelength", "Intensity_1", "Intensity_2">>,
     rows |-> << <<Num(500), Num(1), Num(2)>>, <<Num(501), Num(2), Num(2)>> >>]

\* what a same-stem .json file may be: absent, empty, or a document
SidecarKinds == {"absent", "empty", "doc"}

Sidecar(path, kind) ==
    IF kind = "absent" THEN [p \in {} |-> 0]
    ELSE [p \in {path} |-> File("json", kind = "empty", DocA)]

Files(db, a_side, s_side) ==
    [p \in {P_a_db, P_s_csv, P_m_json, P_m_txt, P_n_txt, P_noext} |->
        IF p = P_a_db THEN File("db", FALSE, db)
        ELSE IF p = P_s_csv THEN File("csv", FALSE, CsvBody)
        ELSE IF p = P_m_json THEN File("json", FALSE, DocM)
        ELSE File("text", FALSE, <<>>)]
    @@ Sidecar(P_a_json, a_side) @@ Sidecar(P_s_json, s_side)

\* the arguments and answers of the constructor calls
DataArgs ==
    {PNone} \cup {PStr(p) : p \in {P_a_db, P_s_csv, P_n_txt, P_noext, P_dotfile, P_dotdir,
                                   P_upper, P_q_csv, P_empty}}

MetadataArgs == {PNone} \cup {PStr(p) : p \in {P_m_json, P_m_txt, P_z_json, P_empty}}

DataAnswers == {P_empty, P_a_db, P_s_csv}

MetadataAnswers == {P_empty, P_m_json}

(***************************************************************************)
(* SpecLoad: a script constructs a Data object from the files on disk.     *)
(* rec is the variable the script binds to the constructor's result: an    *)
(* exception ends the script with nothing bound, and a behaviour is one    *)
(* run of the script.  SpecLoadDB is the same for a database file whose    *)
(* tables are drawn from the bounded sets.                                 *)
(***************************************************************************)
NoCall == [op |-> "none"]

\* a database with one run over a raw table of three rows
DefaultDatabase ==
    Database(<<[result_table_name |-> "results-1-1", parameters |-> <<"t", ",", "v">>]>>,
             << <<Num(0), Num(1)>>, <<Num(0), Num(2)>>, <<Num(1), Num(1)>> >>)

InitLoad ==
    /\ \E a_side \in SidecarKinds, s_side \in SidecarKinds :
            fs = Files(DefaultDatabase, a_side, s_side)
    /\ rec = NoRec
    /\ pre = NoRec
    /\ last = NoCall

InitLoadDB ==
    /\ \E runRows \in SeqsOf(RunRowKinds, 0, MaxRuns),
          rawRows \in SeqsOf(RawRowKinds, 0, MaxRawRows) :
            fs = Files(Database(runRows, rawRows), "absent", "absent")
    /\ rec = NoRec
    /\ pre = NoRec
    /\ last = NoCall

\* x = Data(filename, filename_md)
Load(filename, filename_md, answer_data, answer_md, drops_nuisance) ==
    LET r == Data_init(fs, filename, filename_md, answer_data, answer_md, drops_nuisance)
    IN  /\ last = NoCall
        /\ filename # PNone => answer_data = P_empty
        /\ rec' = IF r.status = "ok" THEN AnObject(r.self) ELSE NoRec
        /\ pre' = NoRec
        /\ last' = [op |-> "Data", filename |-> filename, filename_md |-> filename_md,
                    answer_data |-> answer_data, answer_md |-> answer_md,
                    drops_nuisance |-> drops_nuisance,
                    status |-> r.status, self |-> r.self, calls |-> r.calls,
                    warnings |-> r.warnings, prompts |-> r.prompts]
        /\ UNCHANGED fs

NextLoad ==
    \E filename \in DataArgs, filename_md \in MetadataArgs,
       answer_data \in DataAnswers, answer_md \in MetadataAnswers,
       drops_nuisance \in BOOLEAN :
        Load(filename, filename_md, answer_data, answer_md, drops_nuisance)

NextLoadDB ==
    \E filename_md \in {PNone, PStr(P_m_json)}, drops_nuisance \in BOOLEAN :
        Load(PStr(P_a_db), filename_md, P_empty, P_empty, drops_nuisance)

SpecLoad == InitLoad /\ [][NextLoad]_vars

SpecLoadDB == InitLoadDB /\ [][NextLoadDB]_vars

(***************************************************************************)
(* SpecConstruct: a script constructs a TransportData or an OpticsData     *)
(* object of the package OptoTransportAnalysis (transportData.py,          *)
(* Optics.py over data.py), passing the data path and the metadata path or *)
(* leaving them out.                                                       *)
(***************************************************************************)
Construct(class, r, fn, fn_md, answer_data, answer_md) ==
    /\ last = NoCall
    /\ rec' = IF r.status = "ok" THEN AnObject(r.self) ELSE NoRec
    /\ pre' = NoRec
    /\ last' = [op |-> class, fn |-> fn, fn_md |-> fn_md,
                answer_data |-> answer_data, answer_md |-> answer_md,
                status |-> r.status, self |-> r.self, calls |-> r.calls,
                warnings |-> r.warnings, prompts |-> r.prompts]
    /\ UNCHANGED fs

NewTransportData(fn, fn_md, answer_data, answer_md, drops_nuisance) ==
    Construct("TransportData",
              TransportData_init(fs, fn, fn_md, answer_data, answer_md, drops_nuisance),
              fn, fn_md, answer_data, answer_md)

NewOpticsData(fn, fn_md, answer_data, answer_md, drops_nuisance) ==
    Construct("OpticsData",
              OpticsData_init(fs, fn, fn_md, answer_data, answer_md, drops_nuisance),
              fn, fn_md, answer_data, answer_md)

\* the arguments of a constructor call: left out, or a path
DataPathArgs == {Omitted} \cup {PStr(p) : p \in {P_a_db, P_s_csv}}

MetadataPathArgs == {Omitted} \cup {PStr(p) : p \in {P_m_json}}

NextConstruct ==
    \/ \E fn \in DataPathArgs, fn_md \in MetadataPathArgs, answer_data \in DataAnswers,
          answer_md \in MetadataAnswers, drops_nuisance \in BOOLEAN :
            NewTransportData(fn, fn_md, answer_data, answer_md, drops_nuisance)
    \/ \E fn \in DataPathArgs, fn_md \in MetadataPathArgs, answer_data \in DataAnswers,
          answer_md \in MetadataAnswers, drops_nuisance \in BOOLEAN :
            NewOpticsData(fn, fn_md, answer_data, answer_md, drops_nuisance)

SpecConstruct == InitLoad /\ [][NextConstruct]_vars

(***************************************************************************)
(* SpecRoundTrip: a script calls create_metadata_from_dict(d), the user    *)
(* selects a data file F in the dialog or cancels it, and the script then  *)
(* constructs Data(F) with no metadata path.                               *)
(***************************************************************************)
MetadataKeys == {PyStr("test"), PyInt(1)}

MetadataValues ==
    {PyStr("test!"), PyInt(2), PyFloat(Norm(1, 2)), PyFloat(NaN), PyNone,
     PyList(<<PyInt(1)>>), PyTuple(<<PyInt(1)>>)}

\* the dicts json.dump accepts, over the keys and values above
MetadataDicts == UNION {[keys -> MetadataValues] : keys \in SUBSET MetadataKeys}

CreateMetadata(dict_to_write, answer) ==
    /\ last = NoCall
    /\ fs' = create_metadata_from_dict(fs, dict_to_write, answer)
    /\ last' = [op |-> "create_metadata_from_dict", dict_to_write |-> dict_to_write,
                answer |-> answer]
    /\ UNCHANGED <<rec, pre>>

LoadSelected(answer_md, drops_nuisance) ==
    LET r == Data_init(fs, PStr(last.answer), PNone, P_empty, answer_md, drops_nuisance)
    IN  /\ last # NoCall
        /\ last.op = "create_metadata_from_dict"
        /\ rec' = IF r.status = "ok" THEN AnObject(r.self) ELSE NoRec
        /\ last' = [op |-> "Data", made |-> last, status |-> r.status, self |-> r.self,
                    calls |-> r.calls, warnings |-> r.warnings, prompts |-> r.prompts]
        /\ UNCHANGED <<fs, pre>>

NextRoundTrip ==
    \/ \E dict_to_write \in MetadataDicts, answer \in DataAnswers :
            CreateMetadata(dict_to_write, answer)
    \/ \E answer_md \in MetadataAnswers, drops_nuisance \in BOOLEAN :
            LoadSelected(answer_md, drops_nuisance)

SpecRoundTrip == InitLoad /\ [][NextRoundTrip]_vars

(***************************************************************************)
(* SpecTransport: a script holds a TransportData record loaded from a      *)
(* database (one experiment table, whose rows the loader labelled by the   *)
(* sweep values 0, 1, ...) and calls one of its methods.                   *)
(***************************************************************************)
ExpName == "results-1-1"

Cells == {Num(k) : k \in 0..MaxVal}

\* the experiment's table: a temperature channel and a current held constant
TransportTable(T, current) ==
    DataFrame(RangeIndex(Len(T)), <<TemperatureColumn, "I">>,
              [c \in {TemperatureColumn, "I"} |->
                  IF c = TemperatureColumn THEN T ELSE [i \in DOMAIN T |-> current]],
              [c \in {TemperatureColumn, "I"} |-> "float64"])

TransportSelf(T, current) ==
    [has |-> {"filename", "filename_md", "data", "metadata"},
     filename |-> PStr(P_a_db), filename_md |-> PStr(P_m_json),
     data |-> DictSet(DictSet(DictSet(EmptyOrderedDict, "experiments", ExperimentsTable),
                              "runs", RunsTable(<<[result_table_name |-> ExpName,
                                                   parameters |-> <<"t">>]>>)),
                      ExpName, TransportTable(T, current)),
     metadata |-> DocM]

InitTransport ==
    /\ fs = Files(DefaultDatabase, "absent", "absent")
    /\ \E T \in SeqsOf(Cells, 0, MaxRows), current \in Cells :
            rec = AnObject(TransportSelf(T, current))
    /\ pre = rec
    /\ last = NoCall

\* the str arguments that name a column of the experiment's table
ColumnArgs == {PyStr(c) : c \in Range(rec.self.data.tab[ExpName].columns)}

\* the numbers a caller may pass: a Python float or a Python int
NumberArgs == {PyFloat(Num(k)) : k \in 1..MaxVal} \cup {PyInt(k) : k \in 1..MaxVal}

After(r, call) ==
    /\ rec' = [rec EXCEPT !.self = r.self]
    /\ pre' = rec
    /\ last' = call @@ [status |-> r.status, ret |-> r.ret]
    /\ UNCHANGED fs

RTcond(start_time, warm) ==
    /\ last = NoCall
    /\ After(get_RTcond_DilFridge(rec.self, ExpName, start_time, warm),
             [op |-> "get_RTcond_DilFridge", exp_name |-> ExpName,
              start_time |-> start_time, warm |-> warm])

AppendResistance(R_name, V_sig_name, I_sig_name, gain, sensitivity) ==
    /\ last = NoCall
    /\ After(append_resistance_signal(rec.self, ExpName, R_name, V_sig_name, I_sig_name,
                                      gain, sensitivity),
             [op |-> "append_resistance_signal", exp_name |-> ExpName, R_name |-> R_name,
              V_sig_name |-> V_sig_name, I_sig_name |-> I_sig_name,
              gain |-> gain, sensitivity |-> sensitivity])

AppendMCA(MCA_name, R_2f_sig, R_f_sig, B_sig, I_sig, gain, sensitivity) ==
    /\ last = NoCall
    /\ After(append_MCA_coefficient(rec.self, ExpName, MCA_name, R_2f_sig, R_f_sig, B_sig,
                                    I_sig, gain, sensitivity),
             [op |-> "append_MCA_coefficient", exp_name |-> ExpName, MCA_name |-> MCA_name,
              R_2f_sig |-> R_2f_sig, R_f_sig |-> R_f_sig, B_sig |-> B_sig, I_sig |-> I_sig,
              gain |-> gain, sensitivity |-> sensitivity])

AppendSymm(R_sig) ==
    /\ last = NoCall
    /\ After(append_symm_antisymm_rho(rec.self, ExpName, R_sig),
             [op |-> "append_symm_antisymm_rho", exp_name |-> ExpName, R_sig |-> R_sig])

NextTransport ==
    \/ \E start_time \in {Num(0), Num(1)}, warm \in BOOLEAN : RTcond(start_time, warm)
    \/ \E V_sig_name \in ColumnArgs, I_sig_name \in ColumnArgs,
          gain \in {PyNone, PyStr("gain")} \cup NumberArgs,
          sensitivity \in {PyNone, PyStr("sensitivity")} :
            AppendResistance("R", V_sig_name, I_sig_name, gain, sensitivity)
    \/ \E R_2f_sig \in ColumnArgs, R_f_sig \in ColumnArgs, I_sig \in ColumnArgs,
          B_sig \in ColumnArgs \cup NumberArgs,
          gain \in {PyNone, PyFloat(Num(2))}, sensitivity \in {PyNone, PyFloat(Num(2))} :
            AppendMCA("MCA", R_2f_sig, R_f_sig, B_sig, I_sig, gain, sensitivity)
    \/ \E R_sig \in ColumnArgs : AppendSymm(R_sig)

SpecTransport == InitTransport /\ [][NextTransport]_vars

(***************************************************************************)
(* SpecSweep: a script holds a TransportData record of a 2D sweep (an init *)
(* experiment, outer sweep experiments and inner sweep experiments, each   *)
(* with its result table) and calls get_2d_sweep_params once.              *)
(***************************************************************************)
OuterInstr == "gate"

InnerInstr == "sd"

\* the words of a sweep type around the instrument's name, and its unit
TypePrefix(type) ==
    IF type \in {"Keithley voltage", "Keithley current"} THEN "Keithley"
    ELSE IF type = "AMI430 field" THEN "AMI430" ELSE "PPMS DynaCool"

TypeKind(type) ==
    IF type = "Keithley voltage" THEN "voltage"
    ELSE IF type = "Keithley current" THEN "current"
    ELSE IF type = "PPMS DynaCool temp" THEN "temp" ELSE "field"

TypeUnit(type) ==
    IF type = "Keithley voltage" THEN "V"
    ELSE IF type = "Keithley current" THEN "A"
    ELSE IF type = "PPMS DynaCool temp" THEN "K" ELSE "T"

\* the experiment names a measurement of the given type writes
InitExperiment(type, instr) == TypePrefix(type) \o " " \o instr \o " " \o TypeKind(type) \o " init"

SweepExperiment(type, instr, dirn) ==
    WithDirn(TypePrefix(type) \o " " \o instr \o " " \o TypeKind(type) \o " sweep", dirn)

\* the experiments table: the init row (when there), the outer sweeps to the
\* values 1, 2, ..., then the inner sweeps; exp_id numbers the rows from 1
SweepRows(outer_type, outer_dirn, inner_type, inner_dirn, has_init, n_outer, n_inner) ==
    (IF has_init
     THEN <<[name |-> InitExperiment(outer_type, OuterInstr),
             sample_name |-> "s to 0" \o TypeUnit(outer_type)]>>
     ELSE <<>>)
    \o [j \in 1..n_outer |->
          [name |-> SweepExperiment(outer_type, OuterInstr, outer_dirn),
           sample_name |-> "s to " \o Digits[j + 1] \o TypeUnit(outer_type)]]
    \o [j \in 1..n_inner |->
          [name |-> SweepExperiment(inner_type, InnerInstr, inner_dirn), sample_name |-> "s"]]

SweepExperiments(rows) ==
    DataFrame(RangeIndex(Len(rows)), <<"exp_id", "name", "sample_name">>,
              [c \in {"exp_id", "name", "sample_name"} |->
                  [i \in DOMAIN rows |->
                      IF c = "exp_id" THEN Num(i)
                      ELSE IF c = "name" THEN rows[i].name ELSE rows[i].sample_name]],
              [c \in {"exp_id", "name", "sample_name"} |->
                  IF c = "exp_id" THEN "float64" ELSE "object"])

\* the result table of experiment id: one row, labelled by the id
SweepResult(id) ==
    DataFrame(<<Num(id)>>, <<"Isd_X">>, [c \in {"Isd_X"} |-> <<Num(id)>>],
              [c \in {"Isd_X"} |-> "float64"])

RECURSIVE WithResults(_, _)
WithResults(data, n) ==
    IF n = 0 THEN data
    ELSE DictSet(WithResults(data, n - 1), ResultTableName(Num(n)), SweepResult(n))

SweepSelf(rows) ==
    [has |-> {"filename", "filename_md", "data", "metadata"},
     filename |-> PStr(P_a_db), filename_md |-> PStr(P_m_json),
     data |-> WithResults(DictSet(DictSet(EmptyOrderedDict, "experiments",
                                          SweepExperiments(rows)),
                                  "runs", RunsTable(<<>>)),
                          Len(rows)),
     metadata |-> DocM]

InitSweep ==
    /\ fs = Files(DefaultDatabase, "absent", "absent")
    /\ \E outer_type \in Range(sweep_types), inner_type \in Range(sweep_types),
          outer_dirn \in Range(sweep_dirns), inner_dirn \in {"", "down"},
          has_init \in BOOLEAN, n_outer \in 0..MaxSweeps, n_inner \in 0..MaxSweeps :
            rec = AnObject(SweepSelf(SweepRows(outer_type, outer_dirn, inner_type, inner_dirn,
                                               has_init, n_outer, n_inner)))
    /\ pre = rec
    /\ last = NoCall

\* the type arguments of a call: a pair of recognized types, or one unrecognized
TypeArgs ==
    (Range(sweep_types) \X Range(sweep_types))
        \cup {<<"Lakeshore temp", "Keithley voltage">>, <<"Keithley voltage", "Lakeshore temp">>}

DirnArgs ==
    (Range(sweep_dirns) \X Range(sweep_dirns)) \cup {<<"left", "">>, <<"", "left">>}

Get2dSweepParams(outer_sweep_type, inner_sweep_type, outer_dirn, inner_dirn) ==
    /\ last = NoCall
    /\ After(get_2d_sweep_params(rec.self, OuterInstr, outer_sweep_type, InnerInstr,
                                 inner_sweep_type, outer_dirn, inner_dirn),
             [op |-> "get_2d_sweep_params",
              outer_sweep_instr |-> OuterInstr, outer_sweep_type |-> outer_sweep_type,
              inner_sweep_instr |-> InnerInstr, inner_sweep_type |-> inner_sweep_type,
              outer_dirn |-> outer_dirn, inner_dirn |-> inner_dirn])

NextSweep ==
    \E types \in TypeArgs, dirns \in DirnArgs :
        Get2dSweepParams(types[1], types[2], dirns[1], dirns[2])

SpecSweep == InitSweep /\ [][NextSweep]_vars

(***************************************************************************)
(* SpecOptics: a script holds an OpticsData record loaded from a csv file  *)
(* with the columns Wavelength and Intensity_1..Intensity_k, in any column *)
(* order, and calls add_average_signal once.                               *)
(***************************************************************************)
IntensityName(j) == "Intensity_" \o Digits[j + 1]

\* a cell of an intensity column: a count, or a missing cell
SpectrumCells == {Num(1), Num(2), NaN}

\* the orderings of the elements of the sequence s
Orderings(s) ==
    {[i \in DOMAIN s |-> s[f[i]]] :
        f \in {g \in [DOMAIN s -> DOMAIN s] : \A a, b \in DOMAIN s : g[a] = g[b] => a = b}}

\* the csv file: frames[i][j] is the cell of row i in column Intensity_j
SpectrumBody(order, k, frames) ==
    [header |-> order,
     rows |-> [i \in DOMAIN frames |->
                 [c \in DOMAIN order |->
                     IF order[c] = "Wavelength" THEN Num(500 + i)
                     ELSE frames[i][CHOOSE j \in 1..k : IntensityName(j) = order[c]]]]]

OpticsSelf(body) ==
    [has |-> {"filename", "filename_md", "data", "metadata"},
     filename |-> PStr(P_s_csv), filename_md |-> PStr(P_s_json),
     data |-> FrameData(read_csv(body)),
     metadata |-> DocA]

InitOptics ==
    /\ fs = Files(DefaultDatabase, "absent", "doc")
    /\ \E k \in 1..MaxFrames, n \in 0..MaxSpectrumRows :
          \E frames \in [1..n -> [1..k -> SpectrumCells]],
             order \in Orderings(<<"Wavelength">> \o [j \in 1..k |-> IntensityName(j)]) :
                rec = AnObject(OpticsSelf(SpectrumBody(order, k, frames)))
    /\ pre = rec
    /\ last = NoCall

AddAverageSignal(num_frames) ==
    /\ last = NoCall
    /\ After(add_average_signal(rec.self, num_frames),
             [op |-> "add_average_signal", num_frames |-> num_frames])

NextOptics ==
    \E num_frames \in {PyNone} \cup {PyInt(f) : f \in 1..(MaxFrames + 2)} :
        AddAverageSignal(num_frames)

SpecOptics == InitOptics /\ [][NextOptics]_vars

(***************************************************************************)
(* SpecSignal: a script holds an OpticsData record loaded from a csv file  *)
(* with the columns Wavelength and Intensity_1 and at least one row, has   *)
(* or has not called add_average_signal on it, and calls one of the        *)
(* filters once.                                                           *)
(***************************************************************************)
\* a count of an intensity column
SignalCells == {Num(1), Num(2)}

\* the csv file of a spectrum of one frame, wavelengths 1, 2, ...
SignalBody(frame) ==
    [header |-> <<"Wavelength", "Intensity_1">>,
     rows |-> [i \in DOMAIN frame |-> <<Num(i), frame[i]>>]]

InitSignal ==
    /\ fs = Files(DefaultDatabase, "absent", "doc")
    /\ \E frame \in SeqsOf(SignalCells, 1, MaxSignalRows), averaged \in BOOLEAN :
          LET loaded == OpticsSelf(SignalBody(frame))
          IN  rec = AnObject(IF averaged THEN add_average_signal(loaded, PyNone).self
                             ELSE loaded)
    /\ pre = rec
    /\ last = NoCall

\* the names a caller may pass for a column: the table's columns and a name it lacks
SignalKeys == Range(TheFrame(rec.self.data).columns) \cup {"Background"}

\* widths whose window coefficients are rational
WindowWidths == {1, 2, 3, 4}

ApplyLpf(key_name, n_trunc) ==
    /\ last = NoCall
    /\ After(apply_lpf(rec.self, key_name, n_trunc),
             [op |-> "apply_lpf", key_name |-> key_name, n_trunc |-> n_trunc])

ApplyLpfAvg(n_trunc) ==
    /\ last = NoCall
    /\ After(apply_lpf_avg(rec.self, n_trunc), [op |-> "apply_lpf_avg", n_trunc |-> n_trunc])

ApplySumCosineWindow(key_name, window_name, N, alpha) ==
    /\ last = NoCall
    /\ After(apply_sum_cosine_window(rec.self, key_name, window_name, N, alpha),
             [op |-> "apply_sum_cosine_window", key_name |-> key_name,
              window_name |-> window_name, N |-> N, alpha |-> alpha])

NextSignal ==
    \/ \E key_name \in SignalKeys, n_trunc \in 0..MaxSignalRows : ApplyLpf(key_name, n_trunc)
    \/ \E n_trunc \in 0..MaxSignalRows : ApplyLpfAvg(n_trunc)
    \/ \E key_name \in SignalKeys, window_name \in {"Hann", "Custom", "Boxcar"},
          N \in WindowWidths,
          alpha \in {<<Num(0), Num(0), Num(0), Num(0), Num(0)>>,
                     <<Num(1), Num(0), Num(0), Num(0), Num(0)>>} :
            ApplySumCosineWindow(key_name, window_name, N, alpha)

SpecSignal == InitSignal /\ [][NextSignal]_vars

(***************************************************************************)
(* SpecProcess: a session holds a loaded record, an OpticsData record of a *)
(* csv file or a TransportData record of a database, and calls up to       *)
(* MaxOps of its signal-processing methods one after the other; a call     *)
(* that raises leaves the session running.  pre is the record as loaded,   *)
(* before the first call; last is the latest call, with the number n of    *)
(* calls made and the names writes of the columns that the calls which     *)
(* returned were to write.                                                 *)
(***************************************************************************)
\* the record of a background spectrum, with the columns Wavelength and Intensity
BackgroundSelf ==
    OpticsSelf([header |-> <<"Wavelength", "Intensity">>,
                rows |-> [i \in 1..MaxProcessRows |-> <<Num(i), Num(1)>>]])

InitProcess ==
    /\ fs = Files(DefaultDatabase, "absent", "doc")
    /\ \/ \E frame \in SeqsOf(SignalCells, 1, MaxProcessRows) :
              rec = AnObject(OpticsSelf(SignalBody(frame)))
       \/ \E T \in SeqsOf(SignalCells, 1, MaxProcessRows), current \in SignalCells :
              rec = AnObject(TransportSelf(T, current))
    /\ pre = rec
    /\ last = NoCall

IsOptics == rec.self.data.kind = "DataFrame"

IsTransport == rec.self.data.kind = "OrderedDict"

Count == IF last = NoCall THEN 0 ELSE last.n

Written == IF last = NoCall THEN {} ELSE last.writes

Then(r, call, names) ==
    /\ Count < MaxOps
    /\ rec' = [rec EXCEPT !.self = r.self]
    /\ last' = call @@ [status |-> r.status, ret |-> r.ret, n |-> Count + 1,
                        writes |-> IF r.status = "ok" THEN Written \cup names ELSE Written]
    /\ UNCHANGED <<fs, pre>>

\* the columns of the record as loaded, and the average a session may have added
ProcessKeys ==
    IF IsOptics THEN Range(TheFrame(pre.self.data).columns) \cup {"Average Intensity"} ELSE {}

\* the str arguments that name a column of the experiment's table as loaded
ProcessColumns ==
    IF IsTransport THEN {PyStr(c) : c \in Range(pre.self.data.tab[ExpName].columns)} ELSE {}

ProcessAverage(num_frames) ==
    /\ IsOptics
    /\ Then(add_average_signal(rec.self, num_frames),
            [op |-> "add_average_signal", num_frames |-> num_frames], {"Average Intensity"})

ProcessEnergy ==
    /\ IsOptics
    /\ Then(add_eV_from_wavelength(rec.self), [op |-> "add_eV_from_wavelength"], {"Energy"})

ProcessLpf(key_name, n_trunc) ==
    /\ IsOptics
    /\ Then(apply_lpf(rec.self, key_name, n_trunc),
            [op |-> "apply_lpf", key_name |-> key_name, n_trunc |-> n_trunc],
            {key_name \o " (FFT Smoothed)"})

ProcessWindow(key_name, window_name, N) ==
    /\ IsOptics
    /\ Then(apply_sum_cosine_window(rec.self, key_name, window_name, N,
                                    <<Num(0), Num(0), Num(0), Num(0), Num(0)>>),
            [op |-> "apply_sum_cosine_window", key_name |-> key_name,
             window_name |-> window_name, N |-> N],
            {key_name \o " (" \o window_name \o ")"})

ProcessGradient(key_name) ==
    /\ IsOptics
    /\ Then(compute_gradient(rec.self, key_name),
            [op |-> "compute_gradient", key_name |-> key_name], {"Grad " \o key_name})

ProcessDR(key_name, subtract_mean) ==
    /\ IsOptics
    /\ Then(compute_dR(rec.self, key_name, BackgroundSelf, subtract_mean),
            [op |-> "compute_dR", key_name |-> key_name, subtract_mean |-> subtract_mean],
            {"dR/R " \o key_name})

ProcessResistance(R_name, V_sig_name, I_sig_name, gain) ==
    /\ IsTransport
    /\ Then(append_resistance_signal(rec.self, ExpName, R_name, V_sig_name, I_sig_name,
                                     gain, PyNone),
            [op |-> "append_resistance_signal", R_name |-> R_name,
             V_sig_name |-> V_sig_name, I_sig_name |-> I_sig_name, gain |-> gain],
            {R_name})

ProcessMCA(MCA_name, R_2f_sig, R_f_sig, B_sig, I_sig) ==
    /\ IsTransport
    /\ Then(append_MCA_coefficient(rec.self, ExpName, MCA_name, R_2f_sig, R_f_sig, B_sig,
                                   I_sig, PyNone, PyNone),
            [op |-> "append_MCA_coefficient", MCA_name |-> MCA_name, R_2f_sig |-> R_2f_sig,
             R_f_sig |-> R_f_sig, B_sig |-> B_sig, I_sig |-> I_sig],
            {MCA_name})

ProcessSymm(R_sig) ==
    /\ IsTransport
    /\ Then(append_symm_antisymm_rho(rec.self, ExpName, R_sig),
            [op |-> "append_symm_antisymm_rho", R_sig |-> R_sig],
            {R_sig.s \o "_symm", R_sig.s \o "_antisymm"})

NextProcess ==
    \/ \E num_frames \in {PyNone, PyInt(1)} : ProcessAverage(num_frames)
    \/ ProcessEnergy
    \/ \E key_name \in ProcessKeys, n_trunc \in 1..2 : ProcessLpf(key_name, n_trunc)
    \/ \E key_name \in ProcessKeys, window_name \in {"Hann", "Boxcar"}, N \in 1..2 :
            ProcessWindow(key_name, window_name, N)
    \/ \E key_name \in ProcessKeys : ProcessGradient(key_name)
    \/ \E key_name \in ProcessKeys, subtract_mean \in BOOLEAN :
            ProcessDR(key_name, subtract_mean)
    \/ \E R_name \in {"R", "I"}, V_sig_name \in ProcessColumns, I_sig_name \in ProcessColumns,
          gain \in {PyNone, PyStr("gain")} :
            ProcessResistance(R_name, V_sig_name, I_sig_name, gain)
    \/ \E R_2f_sig \in ProcessColumns, R_f_sig \in ProcessColumns,
          B_sig \in ProcessColumns \cup {PyFloat(Num(2))} :
            ProcessMCA("MCA", R_2f_sig, R_f_sig, B_sig, PyStr("I"))
    \/ \E R_sig \in ProcessColumns : ProcessSymm(R_sig)

SpecProcess == InitProcess /\ [][NextProcess]_vars

(***************************************************************************)
(* Claims about the loader.                                                *)
(***************************************************************************)
Constructed == last # NoCall /\ last.op = "Data"

\* the extension of the data file the constructor settled on
DataExt == splitext(last.self.filename.p)[2]

\* the same-stem .json file of the data file, and whether it is there and non-empty
SameStemJson == splitext(last.self.filename.p)[1] \o ExtJson

SameStemJsonUsable == SameStemJson \in DOMAIN fs /\ ~fs[SameStemJson].empty

\* C1 (as claimed): the metadata source is the explicit path if given; else the
\* same-stem .json if it exists and is non-empty; else there is no metadata and the
\* load succeeds with a warning and metadata = {}.
C1_MetadataResolutionClaimed ==
    (Constructed /\ "__initData" \in Range(last.calls)
        /\ last.status # "AssertionError: Data file type not supported"
        /\ initData(fs, last.self.filename.p, last.drops_nuisance).status = "ok")
    => /\ last.filename_md # PNone => last.self.filename_md = last.filename_md
       /\ (last.filename_md = PNone /\ SameStemJsonUsable)
            => last.self.filename_md = PStr(SameStemJson)
       /\ (last.filename_md = PNone /\ ~SameStemJsonUsable)
            => /\ last.status = "ok"
               /\ rec.live
               /\ rec.self.metadata = EmptyDict
               /\ "No metadata file selected" \in Range(last.warnings)

\* C2: the extension alone decides the kind of the data file: any extension other
\* than .db and .csv (none included) fails the load with the unsupported-format
\* assertion and no record, data or metadata; .db runs the database initializer,
\* .csv the csv initializer.
C2_ExtensionDecidesKind ==
    Constructed =>
        /\ DataExt \notin {ExtDb, ExtCsv}
            => /\ last.status = "AssertionError: Data file type not supported"
               /\ ~rec.live
               /\ last.self.has \cap {"data", "metadata"} = {}
               /\ last.calls = <<"__initData">>
        /\ DataExt = ExtDb => last.calls[2] = "__initDataFromDB"
        /\ DataExt = ExtCsv => last.calls[2] = "__initDataFromCSV"

\* C2's case: a path without extension was refused
C2_Witness ==
    /\ Constructed
    /\ last.self.filename = PStr(P_noext)
    /\ last.status = "AssertionError: Data file type not supported"

\* the runs table of the database just loaded, the names its rows give, the record's tables
LoadedDb == fs[last.self.filename.p].body

RunNames == LoadedDb["runs"].col["result_table_name"]

DbLoaded == Constructed /\ last.status = "ok" /\ DataExt = ExtDb

\* what C3 says of a loaded database
C3_RunsBecomeEntries ==
    /\ \A i \in DOMAIN RunNames : RunNames[i] \in Range(rec.self.data.keys)
    /\ Len(rec.self.data.keys) = 2 + Len(RunNames)
    /\ rec.self.data.tab["experiments"] = LoadedDb["experiments"]
    /\ rec.self.data.tab["runs"] = LoadedDb["runs"]
    /\ \A i \in DOMAIN RunNames :
          NRows(rec.self.data.tab[RunNames[i]]) <= NRows(LoadedDb[RunNames[i]])

\* C3 (as claimed): for every .db input, after load every row of runs has produced
\* exactly one entry keyed by its result_table_name (as many result entries as rows
\* of runs, 'experiments' and 'runs' still the tables read), each entry with at
\* most as many rows as its raw table.  Read on a pandas that raises on a column
\* it cannot average, so that a violation is one every pandas shows.
C3_EveryRunOneEntryClaimed == (DbLoaded /\ ~last.drops_nuisance) => C3_RunsBecomeEntries

DistinctRunNames ==
    /\ \A i, j \in DOMAIN RunNames : i # j => RunNames[i] # RunNames[j]
    /\ \A i \in DOMAIN RunNames : RunNames[i] \notin {"experiments", "runs"}

\* C3 (amended): the same, for a database whose runs rows name pairwise distinct
\* result tables, none of them 'experiments' or 'runs'.
C3_EveryRunOneEntry == (DbLoaded /\ DistinctRunNames) => C3_RunsBecomeEntries

\* C3's case: two runs of distinct tables loaded, one entry smaller than its raw table
C3_Witness ==
    /\ DbLoaded
    /\ DistinctRunNames
    /\ Len(RunNames) = 2
    /\ \E i \in DOMAIN RunNames :
          NRows(rec.self.data.tab[RunNames[i]]) < NRows(LoadedDb[RunNames[i]])

(***************************************************************************)
(* Claims about OpticsData.add_average_signal.                             *)
(***************************************************************************)
\* the script has called the method op
Called(op) == last # NoCall /\ last.op = op

SpectrumBefore == TheFrame(pre.self.data)

SpectrumAfter == TheFrame(rec.self.data)

\* the names Intensity_1..Intensity_k of the table's intensity columns
FrameNames == [j \in 1..(Len(SpectrumBefore.columns) - 1) |-> IntensityName(j)]

\* the values v_1..v_k of row i
FrameValues(i) == [j \in DOMAIN FrameNames |-> SpectrumBefore.col[FrameNames[j]][i]]

AllNumbers(i) == \A j \in DOMAIN FrameNames : IsFinite(FrameValues(i)[j])

Averaged == Called("add_average_signal") /\ last.status = "ok"

\* C4 (as claimed): add_average_signal divides the row-wise sum of the columns whose
\* name begins with 'Intensity' by the explicit frame count when the caller supplies
\* one, and by the number of matching columns only when none is supplied.
C4_ExplicitFrameCountClaimed ==
    Called("add_average_signal")
    => /\ last.status = "ok"
       /\ \A i \in DOMAIN SpectrumBefore.index :
             AllNumbers(i)
             => SpectrumAfter.col["Average Intensity"][i] =
                   Div(SumSeq(FrameValues(i)),
                       IF last.num_frames = PyNone THEN Num(Len(FrameNames))
                       ELSE last.num_frames.v)

\* the record with the columns of its table put in the given order
Reordered(self, order) == [self EXCEPT !.data.tab[""].columns = order]

\* C5: for a table with intensity columns Intensity_1..Intensity_k holding the
\* values v_1..v_k in a row, add_average_signal with no frame count writes
\* (v_1+...+v_k)/k in that row of 'Average Intensity', and the table with its
\* columns in any other order gets the same 'Average Intensity' column.
C5_MeanOfFrames ==
    (Called("add_average_signal") /\ last.num_frames = PyNone)
    => /\ last.status = "ok"
       /\ "Average Intensity" \in Range(SpectrumAfter.columns)
       /\ \A i \in DOMAIN SpectrumBefore.index :
             AllNumbers(i)
             => SpectrumAfter.col["Average Intensity"][i] =
                   Div(SumSeq(FrameValues(i)), Num(Len(FrameNames)))
       /\ \A order \in Orderings(SpectrumBefore.columns) :
             LET other == add_average_signal(Reordered(pre.self, order), PyNone)
             IN  /\ other.status = "ok"
                 /\ TheFrame(other.self.data).col["Average Intensity"]
                       = SpectrumAfter.col["Average Intensity"]

\* add_average_signal() has run on a table of two frames of different values whose
\* first column is an intensity column, and wrote their mean
C5_Witness ==
    /\ Averaged /\ last.num_frames = PyNone
    /\ Len(FrameNames) = 2
    /\ SpectrumBefore.columns[1] # "Wavelength"
    /\ Len(SpectrumBefore.index) = 1
    /\ FrameValues(1) = <<Num(1), Num(2)>>
    /\ SpectrumAfter.col["Average Intensity"] = <<Div(Num(3), Num(2))>>

(***************************************************************************)
(* Claims about TransportData's methods.                                   *)
(***************************************************************************)
\* the experiment's table when the call started, and as the call left it
TableBefore == pre.self.data.tab[ExpName]

TableAfter == rec.self.data.tab[ExpName]

StrictlyDecreasing(T) == \A i \in 1..(Len(T) - 1) : Lt(T[i + 1], T[i])

Without(T, g) == SubSeq(T, 1, g - 1) \o SubSeq(T, g + 1, Len(T))

\* T is a strictly decreasing series with one upward glitch inserted at position g
GlitchAt(T, g) == StrictlyDecreasing(Without(T, g)) /\ Gt(T[g], T[g - 1])

\* C6 (as claimed): with warm=False the mask is true at every point, the first
\* included, of a strictly decreasing temperature series; with one upward glitch
\* inserted it is false at the glitch and true at every other point.
C6_CoolingMaskClaimed ==
    (Called("get_RTcond_DilFridge") /\ ~last.warm /\ last.start_time = Num(0)
        /\ last.status = "ok")
    => LET T == TableBefore.col[TemperatureColumn]
           mask == last.ret.values
       IN  /\ StrictlyDecreasing(T) => \A i \in DOMAIN T : mask[i]
           /\ \A g \in 2..Len(T) : GlitchAt(T, g) => \A i \in DOMAIN T : mask[i] = (i # g)

\* the factor a gain or sensitivity argument stands for: the number itself, or the
\* metadata entry a str names
Factor(x) == IF IsNumber(x) THEN x.v ELSE pre.self.metadata[x.s].v

DividedBy(v, x) == IF x = PyNone THEN v ELSE Div(v, Factor(x))

\* C7 (as claimed): append_resistance_signal writes V/I, further divided by the
\* gain and the sensitivity when supplied, whether the caller passes the number or
\* names the metadata key that holds it: both give the same column.
C7_GainByValueOrKeyClaimed ==
    Called("append_resistance_signal")
    => /\ last.status = "ok"
       /\ last.R_name \in Range(TableAfter.columns)
       /\ \A i \in DOMAIN TableBefore.index :
            TableAfter.col[last.R_name][i] =
                DividedBy(DividedBy(Div(TableBefore.col[last.V_sig_name.s][i],
                                        TableBefore.col[last.I_sig_name.s][i]),
                                    last.gain),
                          last.sensitivity)

\* the same number, doubled, in the same Python type
Doubled(x) == [x EXCEPT !.v = Mul(Num(2), @)]

\* C8 (as claimed): with a fixed numeric B_sig (any number, integer-valued or
\* fractional) append_MCA_coefficient writes R_2f/(R_f*B*I) in every row, so that
\* doubling B_sig halves every value of the output column.
C8_FixedFieldClaimed ==
    (Called("append_MCA_coefficient") /\ IsNumber(last.B_sig))
    => LET twice == append_MCA_coefficient(pre.self, ExpName, last.MCA_name, last.R_2f_sig,
                        last.R_f_sig, Doubled(last.B_sig), last.I_sig, last.gain,
                        last.sensitivity)
       IN  /\ last.status = "ok"
           /\ last.MCA_name \in Range(TableAfter.columns)
           /\ (last.gain = PyNone /\ last.sensitivity = PyNone)
                => \A i \in DOMAIN TableBefore.index :
                      TableAfter.col[last.MCA_name][i] =
                          Div(TableBefore.col[last.R_2f_sig.s][i],
                              Mul(Mul(TableBefore.col[last.R_f_sig.s][i], last.B_sig.v),
                                  TableBefore.col[last.I_sig.s][i]))
           /\ twice.status = "ok"
           /\ \A i \in DOMAIN TableBefore.index :
                 twice.self.data.tab[ExpName].col[last.MCA_name][i] =
                     Div(TableAfter.col[last.MCA_name][i], Num(2))

\* the Python numbers that hold the value b: the float, and the int when b is whole
NumbersOf(b) == {PyFloat(b)} \cup (IF b[2] = 1 THEN {PyInt(b[1])} ELSE {})

\* C9 (as claimed): with B_sig naming a column that holds the constant b in every
\* row, append_MCA_coefficient produces the same output column as with the fixed
\* numeric value b, all other arguments equal.
C9_ColumnOrFixedClaimed ==
    (Called("append_MCA_coefficient") /\ last.B_sig.t = "str" /\ last.status = "ok"
        /\ Len(TableBefore.index) > 0
        /\ \A i \in DOMAIN TableBefore.index :
              TableBefore.col[last.B_sig.s][i] = TableBefore.col[last.B_sig.s][1])
    => \A b \in NumbersOf(TableBefore.col[last.B_sig.s][1]) :
          LET fixed == append_MCA_coefficient(pre.self, ExpName, last.MCA_name, last.R_2f_sig,
                          last.R_f_sig, b, last.I_sig, last.gain, last.sensitivity)
          IN  /\ fixed.status = "ok"
              /\ fixed.self.data.tab[ExpName] = TableAfter

\* C10 (as claimed): for every row position i of an n-row table,
\* '<col>_symm'[i] = (R[i] + R[n-1-i])/2 and '<col>_antisymm'[i] = (R[i] - R[n-1-i])/2:
\* each value is combined with the value at the mirrored row position.
C10_MirroredRowsClaimed ==
    (Called("append_symm_antisymm_rho") /\ last.status = "ok")
    => LET R == TableBefore.col[last.R_sig.s]
           n == Len(R)
       IN  \A i \in 1..n :
              /\ TableAfter.col[last.R_sig.s \o "_symm"][i]
                    = Div(Add(R[i], R[n + 1 - i]), Num(2))
              /\ TableAfter.col[last.R_sig.s \o "_antisymm"][i]
                    = Div(Sub(R[i], R[n + 1 - i]), Num(2))

\* R[i] = R[n-1-i] for every row position i
Palindromic(R) == \A i \in DOMAIN R : R[i] = R[Len(R) + 1 - i]

\* C11: for every palindromic resistance series append_symm_antisymm_rho writes an
\* '_antisymm' column that is zero in every row and a '_symm' column equal to the
\* original series.
C11_PalindromicSeries ==
    (Called("append_symm_antisymm_rho") /\ Palindromic(TableBefore.col[last.R_sig.s]))
    => LET R == TableBefore.col[last.R_sig.s]
       IN  /\ last.status = "ok"
           /\ TableAfter.col[last.R_sig.s \o "_symm"] = R
           /\ TableAfter.col[last.R_sig.s \o "_antisymm"] = [i \in DOMAIN R |-> Num(0)]

\* the method has run on a palindromic series of three rows that is not constant
C11_Witness ==
    /\ Called("append_symm_antisymm_rho") /\ last.status = "ok"
    /\ TableBefore.col[last.R_sig.s] = <<Num(1), Num(2), Num(1)>>
    /\ TableAfter.col[last.R_sig.s \o "_symm"] = <<Num(1), Num(2), Num(1)>>
    /\ TableAfter.col[last.R_sig.s \o "_antisymm"] = <<Num(0), Num(0), Num(0)>>

(***************************************************************************)
(* Claims about TransportData.get_2d_sweep_params.                         *)
(***************************************************************************)
ExperimentsBefore == pre.self.data.tab["experiments"]

\* the call passed both assertions: recognized types and directions
RecognizedCall ==
    /\ Called("get_2d_sweep_params")
    /\ {last.outer_sweep_type, last.inner_sweep_type} \subseteq Range(sweep_types)
    /\ {last.outer_dirn, last.inner_dirn} \subseteq Range(sweep_dirns)

\* the sample names of the rows of the outer init experiment and of the outer sweep
\* experiment, and the ids of the rows of the inner sweep experiment
InitSamples ==
    WhereName(ExperimentsBefore, "sample_name",
              InitExperiment(last.outer_sweep_type, last.outer_sweep_instr))

OuterSamples ==
    WhereName(ExperimentsBefore, "sample_name",
              SweepExperiment(last.outer_sweep_type, last.outer_sweep_instr, last.outer_dirn))

InnerIds ==
    WhereName(ExperimentsBefore, "exp_id",
              SweepExperiment(last.inner_sweep_type, last.inner_sweep_instr, last.inner_dirn))

\* C12 (as claimed): each of the five recognized sweep types is accepted as the
\* outer sweep type: with any recognized direction, and the init, outer sweep and
\* inner sweep experiments in the table, the call returns the outer parameter values
\* parsed (with the type's unit) from the rows of the expected init and sweep names.
C12_EveryOuterTypeClaimed ==
    (RecognizedCall /\ InitSamples # <<>> /\ OuterSamples # <<>> /\ InnerIds # <<>>)
    => /\ last.status = "ok"
       /\ last.ret.outer_param =
             <<param_value(InitSamples[1], TypeUnit(last.outer_sweep_type)).v>>
             \o [k \in DOMAIN OuterSamples |->
                    param_value(OuterSamples[k], TypeUnit(last.outer_sweep_type)).v]

\* the names the call looks up, as it builds them
LookedUp == OuterNames(last.outer_sweep_instr, last.outer_sweep_type, last.outer_dirn)

LookedUpInner ==
    InnerName(last.inner_sweep_instr, last.inner_sweep_type, last.inner_dirn, LookedUp.exp_name)

\* C13 (as claimed): the call fails, and returns no result, whenever no experiments
\* row matches a name it looks up: the outer init experiment's name, the outer sweep
\* experiment's name or the inner sweep experiment's name.
C13_MissingExperimentClaimed ==
    (/\ RecognizedCall /\ LookedUp.bound
     /\ \/ WhereName(ExperimentsBefore, "sample_name", LookedUp.init_exp_name) = <<>>
        \/ WhereName(ExperimentsBefore, "sample_name", LookedUp.exp_name) = <<>>
        \/ WhereName(ExperimentsBefore, "exp_id", LookedUpInner) = <<>>)
    => /\ last.status # "ok"
       /\ last.ret = NoReturn

\* C18 (as claimed): for each recognized inner sweep type the sweep_ids returned are
\* exactly the exp_id values of the rows whose name is the inner experiment name
\* built from the inner type, instrument and direction.
C18_InnerIdsClaimed ==
    (RecognizedCall /\ last.status = "ok") => last.ret.sweep_ids = InnerIds

(***************************************************************************)
(* Claims about the filters of OpticsData.                                 *)
(***************************************************************************)
SignalBefore == TheFrame(pre.self.data)

SignalAfter == TheFrame(rec.self.data)

OnColumn == last.key_name \in Range(SignalBefore.columns)

\* a spectrum with the bins at index >= cutoff zero and the others kept
Truncated(spectrum, cutoff) ==
    [k \in DOMAIN spectrum |->
        IF k - 1 < cutoff THEN spectrum[k] ELSE Complex(Num(0), Num(0))]

Smoothed == last.key_name \o " (FFT Smoothed)"

LowPassed ==
    /\ last.status = "ok"
    /\ Smoothed \in Range(SignalAfter.columns)
    /\ Len(SignalAfter.col[Smoothed]) = NRows(SignalBefore)
    /\ rfft(SignalAfter.col[Smoothed])
          = Truncated(rfft(SignalBefore.col[last.key_name]), last.n_trunc)

\* C19: apply_lpf on an existing column of a table of n rows, n even or odd, with
\* any cutoff index, adds the column '<column> (FFT Smoothed)' of n rows whose
\* spectrum is the column's spectrum with every bin at index >= cutoff zero and
\* every bin below it unchanged.
C19_LowPassAnyLengthClaimed == (Called("apply_lpf") /\ OnColumn) => LowPassed

\* C20: apply_lpf_avg(n_trunc) on a table with the column 'Average Intensity' does
\* what apply_lpf('Average Intensity', n_trunc) does; on a table without it, it
\* fails with the assertion 'No Average Intensity data available' and leaves the
\* table as it was.
C20_LowPassAverageClaimed ==
    Called("apply_lpf_avg") =>
        IF "Average Intensity" \in Range(SignalBefore.columns)
        THEN LET r == apply_lpf(pre.self, "Average Intensity", last.n_trunc)
             IN  last.status = r.status /\ rec.self = r.self
        ELSE /\ last.status = "AssertionError: No 'Average Intensity' data available"
             /\ rec.self.data = pre.self.data

HannWindow(N) == sum_cosine_window(defined_sum_cosine_windows["Hann"], N)

Symmetric(w) == \A n \in DOMAIN w : w[n] = w[Len(w) + 1 - n]

Constant(sig) == \A i, j \in DOMAIN sig : sig[i] = sig[j]

\* the rows at which a window of width N lies wholly inside a signal of n rows
Interior(n, N) == {i \in 1..n : i - (N \div 2) >= 1 /\ i + (N \div 2) <= n}

Windowed == last.key_name \o " (" \o last.window_name \o ")"

ConstantKept ==
    Constant(SignalBefore.col[last.key_name]) =>
        /\ last.status = "ok"
        /\ Windowed \in Range(SignalAfter.columns)
        /\ \A i \in Interior(NRows(SignalBefore), last.N) :
                SignalAfter.col[Windowed][i] = SignalBefore.col[last.key_name][i]

HannCall == Called("apply_sum_cosine_window") /\ last.window_name = "Hann" /\ OnColumn

\* C15: for apply_sum_cosine_window with the window 'Hann' and width N, the window
\* built satisfies w[n] = w[N-1-n] for every n in 0..N-1, and the normalized
\* convolution of a constant signal c is c at every interior row.
C15_HannSymmetricClaimed == HannCall => (Symmetric(HannWindow(last.N)) /\ ConstantKept)

(***************************************************************************)
(* Claims about sequences of operations.                                   *)
(***************************************************************************)
TablesBefore == Range(pre.self.data.keys)

ColumnsBefore(k) == Range(pre.self.data.tab[k].columns)

ColumnStays(k, c) ==
    /\ k \in Range(rec.self.data.keys)
    /\ c \in Range(rec.self.data.tab[k].columns)

ColumnKept(k, c) == ColumnStays(k, c) /\ rec.self.data.tab[k].col[c] = pre.self.data.tab[k].col[c]

AttributesKept ==
    /\ rec.self.metadata = pre.self.metadata
    /\ rec.self.filename = pre.self.filename
    /\ rec.self.filename_md = pre.self.filename_md

\* C14 as stated: after any sequence of signal-processing operations on a loaded
\* record, every column that existed before the sequence still exists under its
\* name with the same values, and metadata, filename and filename_md are unchanged.
C14_OnlyAddsColumnsClaimed ==
    /\ AttributesKept
    /\ \A k \in TablesBefore : \A c \in ColumnsBefore(k) : ColumnKept(k, c)

\* C14, amended: after any sequence of signal-processing operations on a loaded
\* record, every column that existed before the sequence still exists under its
\* name, with the same values unless an operation of the sequence that returned
\* was to write a column of that name, and metadata, filename and filename_md
\* are unchanged.
C14_OnlyWritesNamedColumns ==
    /\ AttributesKept
    /\ \A k \in TablesBefore : \A c \in ColumnsBefore(k) :
            /\ ColumnStays(k, c)
            /\ c \notin Written => ColumnKept(k, c)

ColumnsNow == UNION {{<<k, c>> : c \in Range(rec.self.data.tab[k].columns)} : k \in Range(rec.self.data.keys)}

ColumnsLoaded == UNION {{<<k, c>> : c \in ColumnsBefore(k)} : k \in TablesBefore}

\* two operations of a sequence returned and each added a column
C14_Witness ==
    /\ Count = 2
    /\ Cardinality(Written) >= 2
    /\ Cardinality(ColumnsNow) >= Cardinality(ColumnsLoaded) + 2

(***************************************************************************)
(* Claims about the constructors of TransportData and OpticsData.          *)
(***************************************************************************)
ConstructedRecord == last # NoCall /\ last.op \in {"TransportData", "OpticsData"}

DataPrompt == "Please select data file: "

Prompted == DataPrompt \in Range(last.prompts)

\* C16: for TransportData and for OpticsData, when a data path is passed to the
\* constructor the filename is that path and no file-selection prompt is shown
\* for it; when the constructor is called with no arguments the prompt is shown
\* and the filename is the path the prompt returned.
C16_FilenameResolvedClaimed ==
    ConstructedRecord =>
        /\ last.fn # Omitted => (last.self.filename = last.fn /\ ~Prompted)
        /\ (last.fn = Omitted /\ last.fn_md = Omitted)
              => (Prompted /\ last.self.filename = PStr(last.answer_data))

(***************************************************************************)
(* Claims about create_metadata_from_dict.                                 *)
(***************************************************************************)
\* a == b of two Python values: numbers by value (nan equals nothing), a list
\* only a list and a tuple only a tuple
RECURSIVE PyEq(_, _)
PyEq(a, b) ==
    IF a.t \in {"int", "float"} /\ b.t \in {"int", "float"} THEN a.v = b.v /\ ~IsNaN(a.v)
    ELSE IF a.t # b.t THEN FALSE
    ELSE IF a.t \in {"list", "tuple"}
    THEN /\ Len(a.items) = Len(b.items)
         /\ \A i \in DOMAIN a.items : PyEq(a.items[i], b.items[i])
    ELSE a = b

\* metadata == d, metadata a dict with str keys
PyDictEq(metadata, d) ==
    /\ {PyStr(name) : name \in DOMAIN metadata} = DOMAIN d
    /\ \A name \in DOMAIN metadata : PyEq(metadata[name], d[PyStr(name)])

Reloaded == last # NoCall /\ last.op = "Data" /\ last.made.answer # P_empty

WrittenJson == splitext(last.made.answer)[1] \o ExtJson

MetadataPrompt == "Please select metadata file: "

RoundTrip ==
    /\ WrittenJson \in DOMAIN fs
    /\ last.self.filename_md = PStr(WrittenJson)
    /\ MetadataPrompt \notin Range(last.prompts)
    /\ rec.live
    /\ PyDictEq(rec.self.metadata, last.made.dict_to_write)

\* C17 as stated: after create_metadata_from_dict(d) with the data file F selected
\* in the dialog, for any dict d that json.dump accepts, the file of F's stem and
\* the extension '.json' is written, and a following load of F with no metadata
\* path selects it without a prompt and yields metadata equal to d.
C17_RoundTripClaimed == Reloaded => RoundTrip

\* a value json.load gives back equal: a str, an int, a float other than nan,
\* None, or a list of such values
RECURSIVE Plain(_)
Plain(o) ==
    IF o.t = "float" THEN ~IsNaN(o.v)
    ELSE IF o.t = "list" THEN \A i \in DOMAIN o.items : Plain(o.items[i])
    ELSE o.t \in {"str", "int", "NoneType"}

PlainDict(d) == \A k \in DOMAIN d : k.t = "str" /\ Plain(d[k])

\* C17, amended: the same for any dict d whose keys are strs and whose values are
\* strs, ints, floats other than nan, None, or lists of such values.
C17_RoundTripOfPlainDict == (Reloaded /\ PlainDict(last.made.dict_to_write)) => RoundTrip

\* the dict {'test': 'test!'} of the test suite came back from the file written
\* next to the database a.db
C17_Witness ==
    /\ Reloaded
    /\ last.made.answer = P_a_db
    /\ last.made.dict_to_write = [k \in {PyStr("test")} |-> PyStr("test!")]
    /\ rec.live
    /\ rec.self.metadata = [name \in {"test"} |-> PyStr("test!")]

(***************************************************************************)
(* Claims about add_average_signal within a sequence.                      *)
(***************************************************************************)
\* the latest call of the sequence is add_average_signal, it returned, and no
\* call before it wrote the column Energy
AveragedLast == Called("add_average_signal") /\ last.status = "ok" /\ "Energy" \notin Written

\* the column add_average_signal writes when called first on the record as loaded
AverageOfLoaded == TheFrame(add_average_signal(pre.self, PyNone).self.data).col["Average Intensity"]

\* C21: add_average_signal called after any sequence of other derive operations
\* (low-pass filter, sum-cosine window, gradient, dR/R on any column, an earlier
\* add_average_signal) writes in 'Average Intensity' the values it writes when
\* called first on the freshly loaded record.
C21_AverageOfLoadedColumnsClaimed ==
    AveragedLast => TheFrame(rec.self.data).col["Average Intensity"] = AverageOfLoaded

====
